---------------------------- MODULE Spec2Model ----------------------------
(***************************************************************************)
(* Session configurator of operator-terminagent: the aggregation module    *)
(* (computeFinalConfig, hashConfig), the session module (createSession,    *)
(* joinSession, submitSelection, lockSession, listeners) over a document   *)
(* store, and the host side of the SessionLobby component.                 *)
(***************************************************************************)
EXTENDS Integers, Sequences, FiniteSets, TLC

(***************************************************************************)
(* Aggregation module                                                      *)
(***************************************************************************)

VALID_MODELS ==
  << "Claude Opus 4", "Claude Sonnet 3.6", "DeepSeek-R1", "Gemini-2.5-Pro",
     "Gemini-2.5-Flash", "GPT-4.1", "Grok-3-Beta" >>

VALID_GOALS == << "none", "efficiency", "american_interests" >>

\* The twelve ordinal dials of SpecsSelection / FinalConfig, in declaration order.
Dials ==
  << "adaptive_learning", "long_term_planning", "personnel_database",
     "operational_logs", "external_notifications", "environmental_monitoring",
     "resource_optimization", "workflow_automation", "integrated_control",
     "audits", "red_team", "sandbox" >>

Range(s) == { s[i] : i \in 1..Len(s) }

Max2(a, b) == IF a >= b THEN a ELSE b

Min2(a, b) == IF a <= b THEN a ELSE b

\* A clamp from above only.
clampBoundaryAbove(value) == Min2(3, value)

\* Math.max(0, Math.min(3, Math.round(value))) on integer votes.
clampBoundary(value) == Max2(0, Min2(3, value))

\* The keys of a Map filled by values.forEach(v => counts.set(v, ...)):
\* the distinct values in order of first appearance.
RECURSIVE MapKeys(_)
MapKeys(values) ==
  IF values = << >> THEN << >>
  ELSE LET init == SubSeq(values, 1, Len(values) - 1)
           last == values[Len(values)]
           ks   == MapKeys(init)
       IN IF last \in Range(ks) THEN ks ELSE Append(ks, last)

CountOf(values, v) == Cardinality({ i \in 1..Len(values) : values[i] = v })

\* A scan that keeps every key as a candidate, whatever its count.
ScanAllKeys(values, keys, n) == << 0, SubSeq(keys, 1, n) >>

\* counts.forEach((count, value) => ...): the candidates list after visiting
\* the first n keys, as the pair <<maxCount, candidates>>.
RECURSIVE ScanCandidates(_, _, _)
ScanCandidates(values, keys, n) ==
  IF n = 0 THEN << 0, << >> >>
  ELSE LET prev  == ScanCandidates(values, keys, n - 1)
           count == CountOf(values, keys[n])
       IN IF count > prev[1] THEN << count, << keys[n] >> >>
          ELSE IF count = prev[1] THEN << prev[1], Append(prev[2], keys[n]) >>
          ELSE prev

Candidates(values) ==
  LET keys == MapKeys(values) IN ScanCandidates(values, keys, Len(keys))[2]

\* The tied candidate that was counted first.
SeqHead(s) == s[1]

RECURSIVE SeqMax(_)
SeqMax(s) == IF Len(s) = 1 THEN s[1] ELSE Max2(s[1], SeqMax(Tail(s)))

\* The highest original vote that clamps to modeValue (never below modeValue).
RECURSIVE HighestOriginal(_, _)
HighestOriginal(values, modeValue) ==
  IF values = << >> THEN modeValue
  ELSE LET rest == HighestOriginal(Tail(values), modeValue)
           v    == values[1]
       IN IF clampBoundary(v) = modeValue /\ v > rest THEN v ELSE rest

\* The highest vote of all, as the comment above the function describes it.
modeSnapHighestOfAll(values) ==
  IF Len(values) = 0 THEN 0 ELSE clampBoundary(SeqMax(values))

modeSnapHighest(values) ==
  IF Len(values) = 0 THEN 0
  ELSE LET clampedValues  == [ i \in 1..Len(values) |-> clampBoundary(values[i]) ]
           modeCandidates == Candidates(clampedValues)
       IN IF Len(modeCandidates) = 1
          THEN clampBoundary(HighestOriginal(values, modeCandidates[1]))
          ELSE SeqMax(modeCandidates)

\* The first tied candidate in the order the votes came in.
FirstInserted(order, cands, fallback) == fallback

\* for (const candidate of tieBreakOrder) if (candidates.includes(candidate)) ...
RECURSIVE FirstIn(_, _, _)
FirstIn(order, cands, fallback) ==
  IF order = << >> THEN fallback
  ELSE IF order[1] \in Range(cands) THEN order[1]
  ELSE FirstIn(Tail(order), cands, fallback)

\* A vote that always goes to the head of the priority list.
majorityVoteTopPriority(values, tieBreakOrder) == tieBreakOrder[1]

majorityVote(values, tieBreakOrder) ==
  IF Len(values) = 0 THEN tieBreakOrder[1]
  ELSE LET candidates == Candidates(values)
       IN IF Len(candidates) = 1 THEN candidates[1]
          ELSE FirstIn(tieBreakOrder, candidates, candidates[1])

RECURSIVE Filter(_, _)
Filter(s, keep) ==
  IF s = << >> THEN << >>
  ELSE IF s[1] \in keep THEN << s[1] >> \o Filter(Tail(s), keep)
  ELSE Filter(Tail(s), keep)

Column(selectionList, field) == [ i \in 1..Len(selectionList) |-> selectionList[i][field] ]

\* A default that names the first valid model.
defaultConfigFirstModel ==
  [ model |-> "Claude Opus 4", agent_goal |-> "none",
    adaptive_learning |-> 0, long_term_planning |-> 0, personnel_database |-> 0,
    operational_logs |-> 0, external_notifications |-> 0,
    environmental_monitoring |-> 0, resource_optimization |-> 0,
    workflow_automation |-> 0, integrated_control |-> 0,
    audits |-> 0, red_team |-> 0, sandbox |-> 0 ]

defaultConfig ==
  [ model |-> "DeepSeek-R1", agent_goal |-> "none",
    adaptive_learning |-> 0, long_term_planning |-> 0, personnel_database |-> 0,
    operational_logs |-> 0, external_notifications |-> 0,
    environmental_monitoring |-> 0, resource_optimization |-> 0,
    workflow_automation |-> 0, integrated_control |-> 0,
    audits |-> 0, red_team |-> 0, sandbox |-> 0 ]

(***************************************************************************)
(* hashConfig: JSON.stringify with sorted keys, a 32-bit rolling hash,     *)
(* Math.abs, base 36.  Characters are UTF-16 code units.                   *)
(***************************************************************************)

KeyChars ==
  [ adaptive_learning |-> <<97, 100, 97, 112, 116, 105, 118, 101, 95, 108, 101, 97, 114, 110, 105, 110, 103>>,
    agent_goal |-> <<97, 103, 101, 110, 116, 95, 103, 111, 97, 108>>,
    audits |-> <<97, 117, 100, 105, 116, 115>>,
    environmental_monitoring |-> <<101, 110, 118, 105, 114, 111, 110, 109, 101, 110, 116, 97, 108, 95, 109, 111, 110, 105, 116, 111, 114, 105, 110, 103>>,
    external_notifications |-> <<101, 120, 116, 101, 114, 110, 97, 108, 95, 110, 111, 116, 105, 102, 105, 99, 97, 116, 105, 111, 110, 115>>,
    integrated_control |-> <<105, 110, 116, 101, 103, 114, 97, 116, 101, 100, 95, 99, 111, 110, 116, 114, 111, 108>>,
    long_term_planning |-> <<108, 111, 110, 103, 95, 116, 101, 114, 109, 95, 112, 108, 97, 110, 110, 105, 110, 103>>,
    model |-> <<109, 111, 100, 101, 108>>,
    operational_logs |-> <<111, 112, 101, 114, 97, 116, 105, 111, 110, 97, 108, 95, 108, 111, 103, 115>>,
    personnel_database |-> <<112, 101, 114, 115, 111, 110, 110, 101, 108, 95, 100, 97, 116, 97, 98, 97, 115, 101>>,
    red_team |-> <<114, 101, 100, 95, 116, 101, 97, 109>>,
    resource_optimization |-> <<114, 101, 115, 111, 117, 114, 99, 101, 95, 111, 112, 116, 105, 109, 105, 122, 97, 116, 105, 111, 110>>,
    sandbox |-> <<115, 97, 110, 100, 98, 111, 120>>,
    workflow_automation |-> <<119, 111, 114, 107, 102, 108, 111, 119, 95, 97, 117, 116, 111, 109, 97, 116, 105, 111, 110>> ]

\* The code units of the string values a config can hold.
StringChars(str) ==
  CASE str = "Claude Opus 4" -> <<67, 108, 97, 117, 100, 101, 32, 79, 112, 117, 115, 32, 52>>
    [] str = "Claude Sonnet 3.6" -> <<67, 108, 97, 117, 100, 101, 32, 83, 111, 110, 110, 101, 116, 32, 51, 46, 54>>
    [] str = "DeepSeek-R1" -> <<68, 101, 101, 112, 83, 101, 101, 107, 45, 82, 49>>
    [] str = "Gemini-2.5-Pro" -> <<71, 101, 109, 105, 110, 105, 45, 50, 46, 53, 45, 80, 114, 111>>
    [] str = "Gemini-2.5-Flash" -> <<71, 101, 109, 105, 110, 105, 45, 50, 46, 53, 45, 70, 108, 97, 115, 104>>
    [] str = "GPT-4.1" -> <<71, 80, 84, 45, 52, 46, 49>>
    [] str = "Grok-3-Beta" -> <<71, 114, 111, 107, 45, 51, 45, 66, 101, 116, 97>>
    [] str = "none" -> <<110, 111, 110, 101>>
    [] str = "efficiency" -> <<101, 102, 102, 105, 99, 105, 101, 110, 99, 121>>
    [] str = "american_interests" -> <<97, 109, 101, 114, 105, 99, 97, 110, 95, 105, 110, 116, 101, 114, 101, 115, 116, 115>>

\* Array.prototype.sort's default order: by code units, a prefix first.
RECURSIVE CharsLess(_, _)
CharsLess(a, b) ==
  IF b = << >> THEN FALSE
  ELSE IF a = << >> THEN TRUE
  ELSE IF a[1] # b[1] THEN a[1] < b[1]
  ELSE CharsLess(Tail(a), Tail(b))

\* Object.keys(config).sort()
RECURSIVE SortKeys(_)
SortKeys(keys) ==
  IF keys = {} THEN << >>
  ELSE LET first == CHOOSE k \in keys :
                      \A o \in keys \ {k} : CharsLess(KeyChars[k], KeyChars[o])
       IN << first >> \o SortKeys(keys \ {first})

RECURSIVE DecimalChars(_)
DecimalChars(n) ==
  IF n < 0 THEN << 45 >> \o DecimalChars(0 - n)
  ELSE IF n < 10 THEN << 48 + n >>
  ELSE DecimalChars(n \div 10) \o << 48 + (n % 10) >>

\* JSON text of one value: a quoted string for the two string-typed fields of
\* FinalConfig, a number for every other field.
ValueChars(key, v) ==
  IF key \in {"model", "agent_goal"}
  THEN << 34 >> \o StringChars(v) \o << 34 >>
  ELSE DecimalChars(v)

RECURSIVE MemberChars(_, _)
MemberChars(config, keys) ==
  IF keys = << >> THEN << >>
  ELSE << 34 >> \o KeyChars[keys[1]] \o << 34, 58 >> \o ValueChars(keys[1], config[keys[1]])
       \o (IF Len(keys) > 1 THEN << 44 >> ELSE << >>)
       \o MemberChars(config, Tail(keys))

\* The fields of a FinalConfig in the order the interface and the object
\* literal of computeFinalConfig declare them.
FinalConfigFields == << "model", "agent_goal" >> \o Dials

\* The keys as Object.keys(config) lists them, left unsorted.
KeysAsDeclared(keyOrder) == keyOrder

\* Object.keys(config).sort() of an object whose fields were declared in the
\* order keyOrder.
SortedKeyList(keyOrder) == SortKeys(Range(keyOrder))

\* Object.keys(config).sort() of an object with the fourteen FinalConfig keys.
FinalConfigKeys == SortedKeyList(FinalConfigFields)

\* JSON.stringify(config, Object.keys(config).sort())
StableStringify(config) ==
  LET keys == IF DOMAIN config = DOMAIN defaultConfig THEN FinalConfigKeys
              ELSE SortKeys(DOMAIN config)
  IN << 123 >> \o MemberChars(config, keys) \o << 125 >>

\* JSON.stringify(config, Object.keys(config).sort()) of an object with the
\* fields of config declared in the order keyOrder.
StableStringifyObject(keyOrder, config) ==
  << 123 >> \o MemberChars(config, SortedKeyList(keyOrder)) \o << 125 >>

\* A 32-bit integer as two 16-bit halves <<high, low>> of its unsigned value.
Half == 65536

\* hash = ((hash << 5) - hash) + char; hash = hash & hash
HashStep(hash, char) ==
  LET t == 31 * hash[2] + char
  IN << (31 * hash[1] + (t \div Half)) % Half, t % Half >>

\* The loop for (i = 0; i < sorted.length; i++) over the code units
\* sorted[from..to], starting from hash; evaluated by halves.
RECURSIVE HashLoop(_, _, _, _)
HashLoop(sorted, from, to, hash) ==
  IF from > to THEN hash
  ELSE IF from = to THEN HashStep(hash, sorted[from])
  ELSE LET mid  == (from + to) \div 2
           left == HashLoop(sorted, from, mid, hash)
       \* the first half is computed before the second half starts
       IN IF left \in Seq(Int) THEN HashLoop(sorted, mid + 1, to, left) ELSE left

\* Math.abs of the signed 32-bit value.
Abs32(hash) ==
  IF hash[1] < Half \div 2 THEN hash
  ELSE << (Half - 1 - hash[1] + (IF hash[2] = 0 THEN 1 ELSE 0)) % Half,
          (Half - hash[2]) % Half >>

Base36Char(d) == IF d < 10 THEN 48 + d ELSE 87 + d

\* Number.prototype.toString(36) of a non-negative value.
RECURSIVE ToString36(_)
ToString36(n) ==
  LET r    == n[1] % 36
      t    == r * Half + n[2]
      q    == << n[1] \div 36, t \div 36 >>
      last == << Base36Char(t % 36) >>
  IN IF q = << 0, 0 >> THEN last ELSE ToString36(q) \o last

(***************************************************************************)
(* Bounds of the model                                                     *)
(***************************************************************************)

\* Browser profiles (one localStorage each) and the tabs running the app.
\* Tabs t1 and t2 share the localStorage of device d1.
Devices == { "d1", "d2" }

Clients == { "t1", "t2", "t3" }

DeviceOf == [ t1 |-> "d1", t2 |-> "d1", t3 |-> "d2" ]

\* The tabs that call createSession, joinSession and updatePlayerLastSeen,
\* submitSelection, and lockSession.
Creators == { "t1" }

Joiners == { "t3" }

Voters == { "t1", "t3" }

Lockers == { "t1", "t2", "t3" }

\* The tabs that pass a customConfig to lockSession (a host's edited config).
Editors == { "t1", "t2" }

\* The codes generateJoinCode can draw.
JoinCodes == { "ABC234" }

\* The selections a participant can submit: the first NumSpecs of these.
NumSpecs == 2

SampleSpecs ==
  << [ defaultConfig EXCEPT !.model = "GPT-4.1", !.agent_goal = "efficiency",
                            !.personnel_database = 1, !.external_notifications = 1,
                            !.audits = 2 ],
     [ defaultConfig EXCEPT !.personnel_database = 3, !.operational_logs = 2,
                            !.external_notifications = 1, !.sandbox = 1 ],
     [ defaultConfig EXCEPT !.model = "GPT-4.1", !.agent_goal = "american_interests",
                            !.personnel_database = 3, !.integrated_control = 2 ],
     [ defaultConfig EXCEPT !.model = "Grok-3-Beta", !.operational_logs = 1,
                            !.workflow_automation = 3, !.audits = 2 ] >>

SpecsInputs == { SampleSpecs[i] : i \in 1..Min2(NumSpecs, Len(SampleSpecs)) }

\* The configs a host can pass to lockSession as customConfig.
CustomConfigs ==
  { [ defaultConfig EXCEPT !.model = "Claude Opus 4", !.agent_goal = "american_interests",
                           !.operational_logs = 3, !.workflow_automation = 2,
                           !.red_team = 3 ] }

\* Configs with a dial outside [0,3], which lockSession's parameter type
\* (FinalConfig, dials of type number) admits as customConfig.
OutOfRangeConfigs ==
  { [ defaultConfig EXCEPT !.audits = 5 ],
    [ defaultConfig EXCEPT !.model = "GPT-4.1", !.personnel_database = 0 - 1,
                           !.sandbox = 4 ] }

\* The display names a caller passes to joinSession ("" for none).
NameInputs == { "" }

\* The codes typed into findSessionByCode: the code of a session in three
\* letter cases and with blanks around it, and a code of no session.
CodeInputs == { "ABC234", "abc234", "Abc234", " abc234 ", "ZZZ999" }

\* The same where joins are looked at on their own, and the latest server time.
JoinNames == { "", "Bo" }

MaxClock == 2

\* The selection lists a lock can read in this model: at most one selection
\* per voting device, each from SpecsInputs.
RECURSIVE SeqsOfLen(_, _)
SeqsOfLen(S, n) ==
  IF n = 0 THEN { << >> }
  ELSE { Append(w, x) : w \in SeqsOfLen(S, n - 1), x \in S }

SelectionLists ==
  UNION { SeqsOfLen(SpecsInputs, n) : n \in 0..Cardinality({ DeviceOf[c] : c \in Voters }) }

\* The inputs of computeFinalConfig called on its own: lists of at most
\* MaxVotes votes.  An ordinal vote is an integer from -1 to MaxVote.
MaxVotes == 3

MaxVote == 5

VoteValues == (0 - 1)..MaxVote

\* The vote lists the documentation works out.
ExampleVotes == { << 1, 1, 3 >>, << 2, 2, 2 >>, << 1, 2, 3 >>, << 0, 1, 1, 1, 3, 3 >> }

DialVoteLists ==
  ExampleVotes \cup UNION { SeqsOfLen(VoteValues, n) : n \in 1..MaxVotes }

ModelVoteLists == UNION { SeqsOfLen(Range(VALID_MODELS), n) : n \in 1..MaxVotes }

\* The vote for the even dials that goes with vote v for the odd dials.
Mirror(v) == MaxVote - 1 - v

\* A selection that votes v on the first, third, ... dial and Mirror(v) on
\* the second, fourth, ... dial.
DialSelection(v) ==
  [ model |-> "DeepSeek-R1", agent_goal |-> "none",
    adaptive_learning |-> v, long_term_planning |-> Mirror(v),
    personnel_database |-> v, operational_logs |-> Mirror(v),
    external_notifications |-> v, environmental_monitoring |-> Mirror(v),
    resource_optimization |-> v, workflow_automation |-> Mirror(v),
    integrated_control |-> v, audits |-> Mirror(v),
    red_team |-> v, sandbox |-> Mirror(v) ]

\* The goal voted together with a model: the models are spread over the goals.
GoalWith(model) ==
  LET i == CHOOSE k \in 1..Len(VALID_MODELS) : VALID_MODELS[k] = model
  IN VALID_GOALS[(i % Len(VALID_GOALS)) + 1]

ModelSelection(model) ==
  [ defaultConfig EXCEPT !.model = model, !.agent_goal = GoalWith(model) ]

RECURSIVE MapSeq(_, _)
MapSeq(Op(_), s) ==
  IF s = << >> THEN << >> ELSE << Op(s[1]) >> \o MapSeq(Op, Tail(s))

\* Selections that name a model or a goal outside VALID_MODELS / VALID_GOALS
\* (model is typed string; the store returns whatever was written), next to
\* two that name valid ones.
UnknownVoteSamples ==
  { ModelSelection(VALID_MODELS[1]),
    ModelSelection(VALID_MODELS[2]),
    [ defaultConfig EXCEPT !.model = "GPT-5" ],
    [ defaultConfig EXCEPT !.model = "Claude Opus 4", !.agent_goal = "profit" ],
    [ defaultConfig EXCEPT !.model = "GPT-5", !.agent_goal = "profit" ] }

UnknownVoteLists == SeqsOfLen(UnknownVoteSamples, 1) \cup SeqsOfLen(UnknownVoteSamples, 2)

AggInputs ==
  { << >> }
  \cup { MapSeq(DialSelection, vs) : vs \in DialVoteLists }
  \cup { MapSeq(ModelSelection, ms) : ms \in ModelVoteLists }
  \cup UnknownVoteLists

(***************************************************************************)
(* computeFinalConfig and hashConfig                                       *)
(***************************************************************************)

\* The finalConfig of computeFinalConfig: the default config for no
\* selections, else majority votes and modes over the selections.
AggregateConfig(selectionList) ==
  IF Len(selectionList) = 0 THEN defaultConfig
  ELSE LET modelVotes == Filter(Column(selectionList, "model"), Range(VALID_MODELS))
           finalModel == IF Len(modelVotes) > 0
                         THEN majorityVote(modelVotes, VALID_MODELS)
                         ELSE "DeepSeek-R1"
           goalVotes  == Filter(Column(selectionList, "agent_goal"), Range(VALID_GOALS))
           finalGoal  == IF Len(goalVotes) > 0
                         THEN majorityVote(goalVotes, VALID_GOALS)
                         ELSE "none"
       IN [ model |-> finalModel,
            agent_goal |-> finalGoal,
            adaptive_learning |-> modeSnapHighest(Column(selectionList, "adaptive_learning")),
            long_term_planning |-> modeSnapHighest(Column(selectionList, "long_term_planning")),
            personnel_database |-> modeSnapHighest(Column(selectionList, "personnel_database")),
            operational_logs |-> modeSnapHighest(Column(selectionList, "operational_logs")),
            external_notifications |-> modeSnapHighest(Column(selectionList, "external_notifications")),
            environmental_monitoring |-> modeSnapHighest(Column(selectionList, "environmental_monitoring")),
            resource_optimization |-> modeSnapHighest(Column(selectionList, "resource_optimization")),
            workflow_automation |-> modeSnapHighest(Column(selectionList, "workflow_automation")),
            integrated_control |-> modeSnapHighest(Column(selectionList, "integrated_control")),
            audits |-> modeSnapHighest(Column(selectionList, "audits")),
            red_team |-> modeSnapHighest(Column(selectionList, "red_team")),
            sandbox |-> modeSnapHighest(Column(selectionList, "sandbox")) ]

\* The hash function proper.
HashText(sorted) ==
  LET hash == HashLoop(sorted, 1, Len(sorted), << 0, 0 >>)
      text == ToString36(Abs32(hash))
  IN SubSeq(text, 1, Min2(12, Len(text)))

HashOf(config) == HashText(StableStringify(config))

\* hashConfig of an object with the fields of config declared in the order
\* keyOrder.
hashConfigObject(keyOrder, config) == HashText(StableStringifyObject(keyOrder, config))

\* The configs that get hashed in this model, with their hashes (computed once).
HashedConfigs ==
  CustomConfigs
  \cup OutOfRangeConfigs
  \cup { AggregateConfig(sels) : sels \in SelectionLists }
  \cup { AggregateConfig(sels) : sels \in AggInputs }

HashTable == [ config \in HashedConfigs |-> HashOf(config) ]

hashConfig(config) ==
  IF config \in HashedConfigs THEN HashTable[config] ELSE HashOf(config)

\* computedAt is Date.now() of the calling client, passed in as now.
computeFinalConfig(selectionList, now) ==
  LET finalConfig == AggregateConfig(selectionList)
  IN [ finalConfig |-> finalConfig,
       meta |-> [ methodVersion |-> "v1", selectionCount |-> Len(selectionList),
                  computedAt |-> now, configId |-> hashConfig(finalConfig) ] ]

(***************************************************************************)
(* Identity (localStorage)                                                 *)
(***************************************************************************)

\* localStorage 'operator-terminagent-host-id' of the client's device.
getHostId(c) ==
  CASE DeviceOf[c] = "d1" -> "host_d1"
    [] DeviceOf[c] = "d2" -> "host_d2"

\* A device whose participant id is read from the host id's key.
getPlayerIdFromHostKey(c) == getHostId(c)

\* One participant id for every device.
getPlayerIdShared(c) == "player_d1"

\* localStorage 'operator-terminagent-player-id' of the client's device.
getPlayerId(c) ==
  CASE DeviceOf[c] = "d1" -> "player_d1"
    [] DeviceOf[c] = "d2" -> "player_d2"

\* localStorage 'operator-terminagent-player-name' of the client's device
\* (SessionEntry stores it; "" when the user typed none).
StoredPlayerName(c) ==
  CASE DeviceOf[c] = "d1" -> "Ada"
    [] DeviceOf[c] = "d2" -> ""

toLowerCase(str) ==
  CASE str \in { "ABC234", "Abc234" } -> "abc234"
    [] str = "ZZZ999" -> "zzz999"
    [] OTHER -> str

\* An upper case that leaves lower-case letters as they are.
toUpperCaseNone(str) == str

toUpperCase(str) ==
  CASE str \in { "abc234", "Abc234" } -> "ABC234"
    [] str = " abc234 " -> " ABC234 "
    [] str = "zzz999" -> "ZZZ999"
    [] OTHER -> str

\* String.prototype.trim
trim(str) ==
  CASE str = " ABC234 " -> "ABC234"
    [] str = " abc234 " -> "abc234"
    [] OTHER -> str

generateJoinCode == JoinCodes

(***************************************************************************)
(* The document store                                                      *)
(***************************************************************************)

\* Session document ids, and the ids of player and selection documents.
SessionIds == { toLowerCase(code) : code \in JoinCodes }

\* Document ids in the order a collection query returns them.
DocOrder == << "host_d1", "host_d2", "player_d1", "player_d2" >>

DocIds == Range(DocOrder)

\* A document that does not exist (DocumentSnapshot.exists() is false).
Absent == [ exists |-> FALSE ]

VARIABLES
  sessions,    \* sessions/{sessionId}
  players,     \* sessions/{sessionId}/players/{playerId}
  selections,  \* sessions/{sessionId}/selections/{playerId}
  clock,       \* the server's time (serverTimestamp) and Date.now()
  call,        \* per tab: the createSession or lockSession call in progress
  reply,       \* the outcome of the call that completed last
  lockCommits, \* per session id: lock commits since the session document was set
  lobby,       \* per host tab: SessionLobby's selections and previewConfig state
  calc,        \* a call of computeFinalConfig or hashConfig on its own
  game         \* per tab: the config handed to onStartGame

storeVars == << sessions, players, selections >>

vars == << sessions, players, selections, clock, call, reply, lockCommits, lobby, calc, game >>

Idle == [ pc |-> "idle" ]

NoReply == [ op |-> "none", result |-> "none" ]

\* A SessionLobby that is not mounted.
NoLobby == [ sessionId |-> "none" ]

\* A tab that has not started the game and has no lock under way.
NoGame == [ started |-> FALSE, locking |-> FALSE ]

\* No call of the aggregation module on its own.
NoCalc == [ op |-> "none" ]

InitStore ==
  /\ sessions = [ sid \in SessionIds |-> Absent ]
  /\ players = [ sid \in SessionIds |-> [ id \in DocIds |-> Absent ] ]
  /\ selections = [ sid \in SessionIds |-> [ id \in DocIds |-> Absent ] ]
  /\ clock = 0
  /\ call = [ c \in Clients |-> Idle ]
  /\ reply = NoReply
  /\ lockCommits = [ sid \in SessionIds |-> 0 ]
  /\ lobby = [ c \in Creators |-> NoLobby ]
  /\ game = [ c \in Clients |-> NoGame ]

Init ==
  /\ InitStore
  /\ calc = NoCalc

\* The documents of a collection as a query snapshot: the existing ones, by id.
RECURSIVE DocsFrom(_, _)
DocsFrom(coll, order) ==
  IF order = << >> THEN << >>
  ELSE IF coll[order[1]].exists
       THEN << [ id |-> order[1], data |-> coll[order[1]] ] >> \o DocsFrom(coll, Tail(order))
       ELSE DocsFrom(coll, Tail(order))

\* A query snapshot cut after its first document.
getDocsFirst(coll) == SubSeq(DocsFrom(coll, DocOrder), 1, Min2(1, Len(DocsFrom(coll, DocOrder))))

getDocs(coll) == DocsFrom(coll, DocOrder)

(***************************************************************************)
(* Security rules of the store (firestore.rules)                           *)
(***************************************************************************)

\* A rule that matches the document id only, whatever the session's status.
SelectionWriteAllowedAnyStatus(sid, docId, data) ==
  /\ sessions[sid].exists
  /\ docId = data.playerId

\* selections: create/update only if the session is in lobby and the
\* document id matches the playerId field.
SelectionWriteAllowed(sid, docId, data) ==
  /\ sessions[sid].exists
  /\ sessions[sid].status = "lobby"
  /\ docId = data.playerId

\* The error a refused selection write reaches the caller as.
SelectionWriteError(sid, docId, data) ==
  IF ~ sessions[sid].exists THEN "NotFound"
  ELSE IF sessions[sid].status # "lobby" THEN "InvalidState"
  ELSE "Unauthorized"

(***************************************************************************)
(* Session module.  A tab makes one call at a time.                        *)
(***************************************************************************)

\* The retry budget of createSession's collision loop.
MaxAttempts == 10

\* The value of an argument that was not passed.
Undefined == [ undefined |-> TRUE ]

Reply(op, result) == [ op |-> op, result |-> result ]

\* createSession: hostId = getHostId(); joinCode = generateJoinCode();
\* sessionId = joinCode.toLowerCase(); attempts = 0.
CreateBegin(c) ==
  /\ call[c].pc = "idle"
  /\ \E joinCode \in generateJoinCode :
       call' = [ call EXCEPT ![c] =
                   [ pc |-> "check", hostId |-> getHostId(c),
                     sessionId |-> toLowerCase(joinCode), attempts |-> 0 ] ]
  /\ UNCHANGED << sessions, players, selections, clock, lobby, calc, reply, lockCommits, game >>

\* A loop that tests the budget one round late, so that it reads once more.
CreateCheckOneMore(c) ==
  /\ call[c].pc = "check"
  /\ IF ~ sessions[call[c].sessionId].exists
     THEN call' = [ call EXCEPT ![c].pc = "write" ]
     ELSE \E joinCode \in generateJoinCode :
            call' = [ call EXCEPT ![c] =
                        [ @ EXCEPT !.sessionId = toLowerCase(joinCode),
                                   !.attempts = @ + 1,
                                   !.pc = IF call[c].attempts < MaxAttempts
                                          THEN "check" ELSE "write" ] ]
  /\ UNCHANGED << sessions, players, selections, clock, lobby, calc, reply, lockCommits, game >>

\* One round of while (attempts < 10): await getDoc; break if the id is free,
\* else draw a new code and count the attempt.
CreateCheck(c) ==
  /\ call[c].pc = "check"
  /\ IF ~ sessions[call[c].sessionId].exists
     THEN call' = [ call EXCEPT ![c].pc = "write" ]
     ELSE \E joinCode \in generateJoinCode :
            call' = [ call EXCEPT ![c] =
                        [ @ EXCEPT !.sessionId = toLowerCase(joinCode),
                                   !.attempts = @ + 1,
                                   !.pc = IF call[c].attempts + 1 < MaxAttempts
                                          THEN "check" ELSE "write" ] ]
  /\ UNCHANGED << sessions, players, selections, clock, lobby, calc, reply, lockCommits, game >>

\* The document createSession writes.
sessionData(sessionId, hostId, now) ==
  [ exists |-> TRUE, joinCode |-> toUpperCase(sessionId), status |-> "lobby",
    hostId |-> hostId, createdAt |-> now ]

\* await setDoc(doc(db, 'sessions', sessionId), sessionData); return.
CreateWrite(c) ==
  /\ call[c].pc = "write"
  /\ LET sid == call[c].sessionId
     IN /\ sessions' = [ sessions EXCEPT ![sid] = sessionData(sid, call[c].hostId, clock) ]
        /\ lockCommits' = [ lockCommits EXCEPT ![sid] = 0 ]
  /\ reply' = Reply("createSession", "ok")
  /\ call' = [ call EXCEPT ![c] = Idle ]
  /\ UNCHANGED << players, selections, clock, lobby, calc, game >>

\* playerName || localStorage name || undefined ("" stands for no name).
finalPlayerName(c, playerName) ==
  IF playerName # "" THEN playerName ELSE StoredPlayerName(c)

\* The document joinSession writes: playerName only if there is one.
playerData(name, now) ==
  IF name # ""
  THEN [ exists |-> TRUE, joinedAt |-> now, lastSeenAt |-> now, playerName |-> name ]
  ELSE [ exists |-> TRUE, joinedAt |-> now, lastSeenAt |-> now ]

\* A join that is refused when the participant's record exists already.
joinSessionOnce(c, sid, playerName) ==
  /\ call[c].pc = "idle"
  /\ IF players[sid][getPlayerId(c)].exists
     THEN /\ players' = players
          /\ reply' = Reply("joinSession", "AlreadyExists")
     ELSE /\ players' = [ players EXCEPT ![sid][getPlayerId(c)] =
                            playerData(finalPlayerName(c, playerName), clock) ]
          /\ reply' = Reply("joinSession", "ok")
  /\ UNCHANGED << sessions, selections, clock, lobby, calc, call, lockCommits, game >>

joinSession(c, sid, playerName) ==
  /\ call[c].pc = "idle"
  /\ players' = [ players EXCEPT ![sid][getPlayerId(c)] =
                    playerData(finalPlayerName(c, playerName), clock) ]
  /\ reply' = Reply("joinSession", "ok")
  /\ UNCHANGED << sessions, selections, clock, lobby, calc, call, lockCommits, game >>

\* A heartbeat that is also recorded on the session document.
updatePlayerLastSeenOnSession(c, sid) ==
  /\ call[c].pc = "idle"
  /\ IF players[sid][getPlayerId(c)].exists
     THEN /\ players' = [ players EXCEPT ![sid][getPlayerId(c)].lastSeenAt = clock ]
          /\ sessions' = IF sessions[sid].exists
                         THEN [ sessions EXCEPT ![sid] =
                                  [ exists |-> TRUE, joinCode |-> @.joinCode,
                                    status |-> @.status, hostId |-> @.hostId,
                                    createdAt |-> @.createdAt, lastSeenAt |-> clock ] ]
                         ELSE sessions
          /\ reply' = Reply("updatePlayerLastSeen", "ok")
     ELSE /\ players' = players
          /\ sessions' = sessions
          /\ reply' = Reply("updatePlayerLastSeen", "NotFound")
  /\ UNCHANGED << selections, clock, lobby, calc, call, lockCommits, game >>

\* updateDoc fails on a document that does not exist.
updatePlayerLastSeen(c, sid) ==
  /\ call[c].pc = "idle"
  /\ IF players[sid][getPlayerId(c)].exists
     THEN /\ players' = [ players EXCEPT ![sid][getPlayerId(c)].lastSeenAt = clock ]
          /\ reply' = Reply("updatePlayerLastSeen", "ok")
     ELSE /\ players' = players
          /\ reply' = Reply("updatePlayerLastSeen", "NotFound")
  /\ UNCHANGED << sessions, selections, clock, lobby, calc, call, lockCommits, game >>

\* The document submitSelection writes.
selectionData(c, specs, now) ==
  IF StoredPlayerName(c) # ""
  THEN [ exists |-> TRUE, playerId |-> getPlayerId(c), specs |-> specs,
         updatedAt |-> now, playerName |-> StoredPlayerName(c) ]
  ELSE [ exists |-> TRUE, playerId |-> getPlayerId(c), specs |-> specs,
         updatedAt |-> now ]

\* A submission that creates the record and leaves an existing record as it is.
submitSelectionOnce(c, sid, specs) ==
  /\ call[c].pc = "idle"
  /\ LET data == selectionData(c, specs, clock)
     IN IF SelectionWriteAllowed(sid, getPlayerId(c), data)
        THEN /\ selections' = IF selections[sid][getPlayerId(c)].exists THEN selections
                              ELSE [ selections EXCEPT ![sid][getPlayerId(c)] = data ]
             /\ reply' = Reply("submitSelection", "ok")
        ELSE /\ selections' = selections
             /\ reply' = Reply("submitSelection",
                               SelectionWriteError(sid, getPlayerId(c), data))
  /\ UNCHANGED << sessions, players, clock, lobby, calc, call, lockCommits, game >>

\* setDoc(doc(db, 'sessions', sessionId, 'selections', playerId), selectionData):
\* the write is made, or refused by the rules and the error thrown to the caller.
submitSelection(c, sid, specs) ==
  /\ call[c].pc = "idle"
  /\ LET data == selectionData(c, specs, clock)
     IN IF SelectionWriteAllowed(sid, getPlayerId(c), data)
        THEN /\ selections' = [ selections EXCEPT ![sid][getPlayerId(c)] = data ]
             /\ reply' = Reply("submitSelection", "ok")
        ELSE /\ selections' = selections
             /\ reply' = Reply("submitSelection",
                               SelectionWriteError(sid, getPlayerId(c), data))
  /\ UNCHANGED << sessions, players, clock, lobby, calc, call, lockCommits, game >>

\* lockSession: hostId = getHostId(); runTransaction(...) starts.
LockBegin(c, sid, customConfig) ==
  /\ call[c].pc = "idle"
  /\ call' = [ call EXCEPT ![c] =
                 [ pc |-> "get", sessionId |-> sid, customConfig |-> customConfig,
                   hostId |-> getHostId(c) ] ]
  /\ UNCHANGED << sessions, players, selections, clock, lobby, calc, reply, lockCommits, game >>

\* The checks without the one on the status.
LockCheckNoStatus(sessionDoc, hostId) ==
  IF ~ sessionDoc.exists THEN "NotFound"
  ELSE IF sessionDoc.hostId # hostId THEN "Unauthorized"
  ELSE "ok"

\* The checks without the comparison of hostId.
LockCheckNoHost(sessionDoc, hostId) ==
  IF ~ sessionDoc.exists THEN "NotFound"
  ELSE IF sessionDoc.status # "lobby" THEN "InvalidState"
  ELSE "ok"

\* The three checks on the session document the transaction read.
LockCheck(sessionDoc, hostId) ==
  IF ~ sessionDoc.exists THEN "NotFound"
  ELSE IF sessionDoc.status # "lobby" THEN "InvalidState"
  ELSE IF sessionDoc.hostId # hostId THEN "Unauthorized"
  ELSE "ok"

\* sessionDoc = await transaction.get(sessionRef), then the checks: a failed
\* check throws, which ends the transaction without a write.
LockGet(c) ==
  /\ call[c].pc = "get"
  /\ LET sessionDoc == sessions[call[c].sessionId]
         check      == LockCheck(sessionDoc, call[c].hostId)
     IN IF check = "ok"
        THEN /\ call' = [ call EXCEPT ![c] =
                            [ pc |-> "getDocs", sessionId |-> call[c].sessionId,
                              customConfig |-> call[c].customConfig,
                              hostId |-> call[c].hostId, read |-> sessionDoc ] ]
             /\ reply' = reply
        ELSE /\ call' = [ call EXCEPT ![c] = Idle ]
             /\ reply' = Reply("lockSession", check)
  /\ UNCHANGED << sessions, players, selections, clock, lobby, calc, lockCommits, game >>

\* selectionsSnapshot.docs.map(doc => doc.data().specs)
SpecsOf(docs) == [ i \in 1..Len(docs) |-> docs[i].data.specs ]

\* A host-edited meta that does not fetch the selections for its count.
LockComputeNoCount(customConfig, docs, now) ==
  IF customConfig # Undefined
  THEN [ finalConfig |-> customConfig,
         meta |-> [ methodVersion |-> "v1-host-edited", selectionCount |-> 0,
                    computedAt |-> now, configId |-> hashConfig(customConfig) ] ]
  ELSE computeFinalConfig(SpecsOf(docs), now)

\* A host-edited meta that carries the tag of the aggregated path.
LockComputeSameTag(customConfig, docs, now) ==
  IF customConfig # Undefined
  THEN [ finalConfig |-> customConfig,
         meta |-> [ methodVersion |-> "v1", selectionCount |-> Len(docs),
                    computedAt |-> now, configId |-> hashConfig(customConfig) ] ]
  ELSE computeFinalConfig(SpecsOf(docs), now)

\* A host-edited meta whose configId is taken from the aggregate of the votes.
LockComputeHashOfVotes(customConfig, docs, now) ==
  IF customConfig # Undefined
  THEN [ finalConfig |-> customConfig,
         meta |-> [ computeFinalConfig(SpecsOf(docs), now).meta
                      EXCEPT !.methodVersion = "v1-host-edited" ] ]
  ELSE computeFinalConfig(SpecsOf(docs), now)

\* finalConfig and meta from the selections snapshot: the host's custom config
\* with a host-edited meta, else the aggregate of all the snapshot's specs.
LockCompute(customConfig, docs, now) ==
  IF customConfig # Undefined
  THEN [ finalConfig |-> customConfig,
         meta |-> [ methodVersion |-> "v1-host-edited", selectionCount |-> Len(docs),
                    computedAt |-> now, configId |-> hashConfig(customConfig) ] ]
  ELSE computeFinalConfig(SpecsOf(docs), now)

\* selectionsSnapshot = await getDocs(selectionsRef): a read outside the
\* transaction's read set; finalConfig and meta are computed from it.
LockGetDocs(c) ==
  /\ call[c].pc = "getDocs"
  /\ LET docs     == getDocs(selections[call[c].sessionId])
         computed == LockCompute(call[c].customConfig, docs, clock)
     IN call' = [ call EXCEPT ![c] =
                    [ pc |-> "commit", sessionId |-> call[c].sessionId,
                      customConfig |-> call[c].customConfig,
                      hostId |-> call[c].hostId, read |-> call[c].read,
                      docs |-> docs, finalConfig |-> computed.finalConfig,
                      meta |-> computed.meta ] ]
  /\ UNCHANGED << sessions, players, selections, clock, lobby, calc, reply, lockCommits, game >>

\* An update that sets the status and the time but not the config.
LockUpdateTorn(sessionDoc, finalConfig, meta, now) ==
  [ exists |-> TRUE, joinCode |-> sessionDoc.joinCode, status |-> "locked",
    hostId |-> sessionDoc.hostId, createdAt |-> sessionDoc.createdAt,
    lockedAt |-> now ]

\* A write that replaces the session document instead of updating it.
LockUpdateReplace(sessionDoc, finalConfig, meta, now) ==
  [ exists |-> TRUE, status |-> "locked", lockedAt |-> now,
    finalConfig |-> finalConfig, finalConfigMeta |-> meta ]

\* An update that ends the session in the same write.
LockUpdateEnded(sessionDoc, finalConfig, meta, now) ==
  [ exists |-> TRUE, joinCode |-> sessionDoc.joinCode, status |-> "ended",
    hostId |-> sessionDoc.hostId, createdAt |-> sessionDoc.createdAt,
    lockedAt |-> now, finalConfig |-> finalConfig, finalConfigMeta |-> meta ]

\* transaction.update(sessionRef, {status, lockedAt, finalConfig, finalConfigMeta})
LockUpdate(sessionDoc, finalConfig, meta, now) ==
  [ exists |-> TRUE, joinCode |-> sessionDoc.joinCode, status |-> "locked",
    hostId |-> sessionDoc.hostId, createdAt |-> sessionDoc.createdAt,
    lockedAt |-> now, finalConfig |-> finalConfig, finalConfigMeta |-> meta ]

\* A store that commits without comparing with what the transaction read.
CommitAlways(current, read) == TRUE

\* Whether the store lets the transaction commit: the session document it
\* read has not been written since.
CommitAllowed(current, read) == current = read

\* The transaction commits, or the store reruns the transaction function.
LockCommit(c) ==
  /\ call[c].pc = "commit"
  /\ LET sid == call[c].sessionId
     IN IF CommitAllowed(sessions[sid], call[c].read)
        THEN /\ sessions' = [ sessions EXCEPT ![sid] =
                                LockUpdate(sessions[sid], call[c].finalConfig,
                                           call[c].meta, clock) ]
             /\ lockCommits' = [ lockCommits EXCEPT ![sid] = @ + 1 ]
             /\ reply' = Reply("lockSession", "ok")
             /\ call' = [ call EXCEPT ![c] = Idle ]
        ELSE /\ call' = [ call EXCEPT ![c] =
                            [ pc |-> "get", sessionId |-> sid,
                              customConfig |-> call[c].customConfig,
                              hostId |-> call[c].hostId ] ]
             /\ UNCHANGED << sessions, lockCommits, reply >>
  /\ UNCHANGED << players, selections, clock, lobby, calc, game >>

\* A failure after the status was written on its own, outside the transaction.
LockStoreFailurePartial(c) ==
  /\ call[c].pc = "commit"
  /\ sessions' = [ sessions EXCEPT ![call[c].sessionId].status = "locked" ]
  /\ call' = [ call EXCEPT ![c] = Idle ]
  /\ reply' = Reply("lockSession", "StoreFailure")
  /\ UNCHANGED << players, selections, clock, lobby, calc, lockCommits, game >>

\* The store fails the transaction (network, permission, retries used up):
\* runTransaction rejects and nothing is written.
LockStoreFailure(c) ==
  /\ call[c].pc \in { "get", "getDocs", "commit" }
  /\ call' = [ call EXCEPT ![c] = Idle ]
  /\ reply' = Reply("lockSession", "StoreFailure")
  /\ UNCHANGED << sessions, players, selections, clock, lobby, calc, lockCommits, game >>

(***************************************************************************)
(* SessionLobby (host view)                                                *)
(***************************************************************************)

\* The literal the preview effect shows when there are no votes.
previewDefaultConfig ==
  [ model |-> "DeepSeek-R1", agent_goal |-> "none",
    adaptive_learning |-> 0, long_term_planning |-> 0, personnel_database |-> 0,
    operational_logs |-> 0, external_notifications |-> 0,
    environmental_monitoring |-> 0, resource_optimization |-> 0,
    workflow_automation |-> 0, integrated_control |-> 0,
    audits |-> 0, red_team |-> 0, sandbox |-> 0 ]

\* The participant ids of the devices whose host id is hostId.
PlayerIdsOfHost(hostId) == { getPlayerId(c) : c \in { h \in Clients : getHostId(h) = hostId } }

\* The selections that were not submitted from the host's device.
NotFromHostDevice(docs, hostId) ==
  SelectSeq(docs, LAMBDA sel : sel.id \notin PlayerIdsOfHost(hostId))

\* A filter that drops the selections submitted from the host's device.
nonHostSelectionsByDevice(docs, hostId) == NotFromHostDevice(docs, hostId)

\* selections.filter(sel => sel.id !== hostId)
nonHostSelections(docs, hostId) == SelectSeq(docs, LAMBDA sel : sel.id # hostId)

\* The preview effect: the aggregate of the selections whose id is not the
\* session's hostId, or the default literal when none is left.
previewEffect(docs, hostId, now) ==
  LET kept == nonHostSelections(docs, hostId)
  IN IF Len(kept) > 0
     THEN computeFinalConfig(SpecsOf(kept), now).finalConfig
     ELSE previewDefaultConfig

\* listenSelections delivers the current snapshot to the host's lobby
\* (setSelections), and the preview effect runs on it (isHost && session).
listenSelections(c, sid) ==
  /\ sessions[sid].exists
  /\ sessions[sid].hostId = getHostId(c)
  /\ LET docs == getDocs(selections[sid])
     IN lobby' = [ lobby EXCEPT ![c] =
                     [ sessionId |-> sid, selections |-> docs,
                       previewConfig |-> previewEffect(docs, sessions[sid].hostId, clock) ] ]
  /\ UNCHANGED << sessions, players, selections, clock, call, reply, lockCommits, calc, game >>

Next ==
  \/ \E c \in Creators : CreateBegin(c)
  \/ \E c \in Creators : CreateCheck(c)
  \/ \E c \in Creators : CreateWrite(c)
  \/ \E c \in Joiners, sid \in SessionIds, name \in NameInputs : joinSession(c, sid, name)
  \/ \E c \in Joiners, sid \in SessionIds : updatePlayerLastSeen(c, sid)
  \/ \E c \in Voters, sid \in SessionIds, specs \in SpecsInputs :
       submitSelection(c, sid, specs)
  \/ \E c \in Lockers, sid \in SessionIds : LockBegin(c, sid, Undefined)
  \/ \E c \in Editors, sid \in SessionIds, custom \in CustomConfigs :
       LockBegin(c, sid, custom)
  \/ \E c \in Lockers : LockGet(c)
  \/ \E c \in Lockers : LockGetDocs(c)
  \/ \E c \in Lockers : LockCommit(c)
  \/ \E c \in Lockers : LockStoreFailure(c)

Spec == Init /\ [][Next]_vars

\* The host's lobby next to the store: the host creates the session, clients
\* vote, the lobby shows its preview and the host locks without an override.
NextLobby ==
  \/ \E c \in Creators : CreateBegin(c)
  \/ \E c \in Creators : CreateCheck(c)
  \/ \E c \in Creators : CreateWrite(c)
  \/ \E c \in Voters, sid \in SessionIds, specs \in SpecsInputs :
       submitSelection(c, sid, specs)
  \/ \E c \in Creators, sid \in SessionIds : listenSelections(c, sid)
  \/ \E c \in Creators, sid \in SessionIds : LockBegin(c, sid, Undefined)
  \/ \E c \in Creators : LockGet(c)
  \/ \E c \in Creators : LockGetDocs(c)
  \/ \E c \in Creators : LockCommit(c)

SpecLobby == Init /\ [][NextLobby]_vars

\* BASE_PERFORMANCE, GOAL_MODIFIERS and the perf of BOUNDARY_IMPACT, in hundredths.
BASE_PERFORMANCE ==
  [ m \in Range(VALID_MODELS) |->
      CASE m = "Claude Opus 4" -> 35
        [] m = "Claude Sonnet 3.6" -> 30
        [] m = "DeepSeek-R1" -> 32
        [] m = "Gemini-2.5-Pro" -> 31
        [] m = "Gemini-2.5-Flash" -> 29
        [] m = "GPT-4.1" -> 31
        [] m = "Grok-3-Beta" -> 28 ]

GOAL_MODIFIERS == [ none |-> 0, efficiency |-> 12, american_interests |-> 8 ]

BOUNDARY_IMPACT ==
  [ adaptive_learning |-> [ boundary |-> "decision", perf |-> 12 ],
    long_term_planning |-> [ boundary |-> "decision", perf |-> 10 ],
    personnel_database |-> [ boundary |-> "knowledge", perf |-> 15 ],
    operational_logs |-> [ boundary |-> "knowledge", perf |-> 20 ],
    external_notifications |-> [ boundary |-> "action", perf |-> 22 ],
    environmental_monitoring |-> [ boundary |-> "action", perf |-> 26 ],
    resource_optimization |-> [ boundary |-> "action", perf |-> 20 ],
    workflow_automation |-> [ boundary |-> "action", perf |-> 24 ],
    integrated_control |-> [ boundary |-> "action", perf |-> 28 ] ]

RECURSIVE SumOver(_, _)
SumOver(f, keys) ==
  IF keys = {} THEN 0
  ELSE LET k == CHOOSE x \in keys : TRUE IN f[k] + SumOver(f, keys \ {k})

\* validateConfig's performance before the clamp to [0, 1], in units of 1/300
\* (every term is a number of hundredths times value / 3).
Performance300(config) ==
  3 * (IF config.model \in DOMAIN BASE_PERFORMANCE THEN BASE_PERFORMANCE[config.model] ELSE 0)
  + 3 * GOAL_MODIFIERS[config.agent_goal]
  + SumOver([ k \in DOMAIN BOUNDARY_IMPACT |-> BOUNDARY_IMPACT[k].perf * config[k] ],
            DOMAIN BOUNDARY_IMPACT)
  - (IF config.audits > 0 THEN 8 * config.audits ELSE 0)
  - (IF config.red_team > 0 THEN 10 * config.red_team ELSE 0)
  - (IF config.sandbox > 0 THEN 6 * config.sandbox ELSE 0)

\* validateConfig(config).canLock: a knowledge boundary, an action boundary
\* and a performance of at least 45%.
validateConfig(config) ==
  /\ config.personnel_database > 0 \/ config.operational_logs > 0
  /\ \E k \in DOMAIN BOUNDARY_IMPACT :
       BOUNDARY_IMPACT[k].boundary = "action" /\ config[k] > 0
  /\ Performance300(config) >= 135

\* handleLock up to the call of lockSession: the host clicks with the session
\* in lobby, configToLock = hostEditedConfig || previewConfig passes
\* validateConfig, and lockSession(sessionId, hostEditedConfig || undefined)
\* starts.  Undefined stands for a hostEditedConfig of null.
handleLock(c, sid, hostEditedConfig) ==
  /\ call[c].pc = "idle"
  /\ ~ game[c].started
  /\ lobby[c] # NoLobby
  /\ lobby[c].sessionId = sid
  /\ sessions[sid].exists
  /\ sessions[sid].status = "lobby"
  /\ LET configToLock == IF hostEditedConfig # Undefined THEN hostEditedConfig
                         ELSE lobby[c].previewConfig
     IN /\ validateConfig(configToLock)
        /\ game' = [ game EXCEPT ![c] =
                       [ started |-> FALSE, locking |-> TRUE, sessionId |-> sid,
                         configToLock |-> configToLock ] ]
  /\ call' = [ call EXCEPT ![c] =
                 [ pc |-> "get", sessionId |-> sid, customConfig |-> hostEditedConfig,
                   hostId |-> getHostId(c) ] ]
  /\ UNCHANGED << sessions, players, selections, clock, reply, lockCommits, lobby, calc >>

\* handleLock after lockSession has resolved: the timeout calls
\* onStartGame(sessionId, configToLock).  The host's tab is the only one that
\* locks here, so its call has resolved when it is over and the session is locked.
handleLockStart(c) ==
  /\ game[c].locking
  /\ call[c] = Idle
  /\ sessions[game[c].sessionId].exists
  /\ sessions[game[c].sessionId].status = "locked"
  /\ game' = [ game EXCEPT ![c] =
                 [ started |-> TRUE, locking |-> FALSE, sessionId |-> game[c].sessionId,
                   config |-> game[c].configToLock ] ]
  /\ UNCHANGED << sessions, players, selections, clock, call, reply, lockCommits, lobby, calc >>

\* The listenSession callback of a client that is not the host: on a locked
\* session with a finalConfig it calls onStartGame(sessionId, s.finalConfig), once.
listenSessionRedirect(c, sid) ==
  /\ ~ game[c].started
  /\ sessions[sid].exists
  /\ sessions[sid].status = "locked"
  /\ "finalConfig" \in DOMAIN sessions[sid]
  /\ sessions[sid].hostId # getHostId(c)
  /\ game' = [ game EXCEPT ![c] =
                 [ started |-> TRUE, locking |-> FALSE, sessionId |-> sid,
                   config |-> sessions[sid].finalConfig ] ]
  /\ UNCHANGED << sessions, players, selections, clock, call, reply, lockCommits, lobby, calc >>

\* The selection form as the lobby first shows it: useState's initial value,
\* every dial 0.
InitialSelection ==
  [ model |-> "DeepSeek-R1", agent_goal |-> "none",
    adaptive_learning |-> 0, long_term_planning |-> 0, personnel_database |-> 0,
    operational_logs |-> 0, external_notifications |-> 0,
    environmental_monitoring |-> 0, resource_optimization |-> 0,
    workflow_automation |-> 0, integrated_control |-> 0,
    audits |-> 0, red_team |-> 0, sandbox |-> 0 ]

\* The host's lock button while a participant submits and resubmits, the
\* untouched form among its submissions.
NextValidate ==
  \/ \E c \in Creators : CreateBegin(c)
  \/ \E c \in Creators : CreateCheck(c)
  \/ \E c \in Creators : CreateWrite(c)
  \/ \E c \in Joiners, sid \in SessionIds, specs \in SpecsInputs \cup { InitialSelection } :
       submitSelection(c, sid, specs)
  \/ \E c \in Creators, sid \in SessionIds : listenSelections(c, sid)
  \/ \E c \in Creators, sid \in SessionIds, edited \in CustomConfigs \cup { Undefined } :
       handleLock(c, sid, edited)
  \/ \E c \in Creators : LockGet(c)
  \/ \E c \in Creators : LockGetDocs(c)
  \/ \E c \in Creators : LockCommit(c)
  \/ \E c \in Creators : handleLockStart(c)

SpecValidate == Init /\ [][NextValidate]_vars

(***************************************************************************)
(* SessionLobby's session listener, step by step: the effect subscribes,   *)
(* the callback runs on each snapshot, the redirect timer fires, and the   *)
(* effect's cleanup unsubscribes.                                          *)
(***************************************************************************)

\* The tabs that show a SessionLobby here: one on the host's device, one not.
LobbyClients == { "t2", "t3" }

\* Whether the SessionLobby of tab c is mounted with its listeners subscribed.
Subscribed(c) == "mounted" \in DOMAIN game[c] /\ game[c].mounted

\* The effect body: hasRedirectedRef.current = false and listenSession(...)
\* subscribes; the session state starts as null and no timer is set.
mountLobby(c, sid) ==
  /\ ~ Subscribed(c)
  /\ ~ game[c].locking
  /\ game' = [ game EXCEPT ![c] =
                 [ started |-> FALSE, locking |-> FALSE, mounted |-> TRUE,
                   sessionId |-> sid, session |-> Undefined,
                   hasRedirected |-> FALSE, timeout |-> Undefined, starts |-> 0 ] ]
  /\ UNCHANGED << sessions, players, selections, clock, call, reply, lockCommits, lobby, calc >>

\* What a snapshot of sessions/{sid} holds: the document, or null.
sessionSnapshotOf(sid) == IF sessions[sid].exists THEN sessions[sid] ELSE Absent

\* A callback that schedules the redirect on every locked snapshot.
redirectsEveryTime(c, s) ==
  /\ s.exists
  /\ s.status = "locked"
  /\ "finalConfig" \in DOMAIN s
  /\ s.hostId # getHostId(c)

\* Whether the callback schedules the redirect on snapshot s.
redirects(c, s) ==
  /\ s.exists
  /\ s.status = "locked"
  /\ "finalConfig" \in DOMAIN s
  /\ s.hostId # getHostId(c)
  /\ ~ game[c].hasRedirected

\* The listenSession callback on a snapshot that differs from the last one
\* delivered: setSession(s), and for a locked session with a finalConfig whose
\* host is someone else, once per subscription, the flag is set and a timer
\* is started that holds s.
sessionSnapshot(c) ==
  /\ Subscribed(c)
  /\ LET s == sessionSnapshotOf(game[c].sessionId)
     IN /\ s # game[c].session
        /\ game' = [ game EXCEPT ![c] =
                       IF redirects(c, s)
                       THEN [ @ EXCEPT !.session = s, !.hasRedirected = TRUE, !.timeout = s ]
                       ELSE [ @ EXCEPT !.session = s ] ]
  /\ UNCHANGED << sessions, players, selections, clock, call, reply, lockCommits, lobby, calc >>

\* The timer's function: if (s.finalConfig) onStartGame(sessionId, s.finalConfig).
redirectTimeout(c) ==
  /\ "timeout" \in DOMAIN game[c]
  /\ game[c].timeout # Undefined
  /\ game' = [ game EXCEPT ![c] =
                 [ started |-> TRUE, locking |-> FALSE, mounted |-> game[c].mounted,
                   sessionId |-> game[c].sessionId, session |-> game[c].session,
                   hasRedirected |-> game[c].hasRedirected, timeout |-> Undefined,
                   starts |-> game[c].starts + 1,
                   config |-> game[c].timeout.finalConfig ] ]
  /\ UNCHANGED << sessions, players, selections, clock, call, reply, lockCommits, lobby, calc >>

\* The effect's cleanup: the listeners are unsubscribed, the timer is cleared
\* and the flag reset.
unmountLobby(c) ==
  /\ Subscribed(c)
  /\ game' = [ game EXCEPT ![c] =
                 [ @ EXCEPT !.mounted = FALSE, !.timeout = Undefined,
                            !.hasRedirected = FALSE ] ]
  /\ UNCHANGED << sessions, players, selections, clock, call, reply, lockCommits, lobby, calc >>

\* The host creates and locks, with or without an override, while a tab on
\* the host's device and a tab on another device show the lobby.
NextRedirect ==
  \/ \E c \in Creators : CreateBegin(c)
  \/ \E c \in Creators : CreateCheck(c)
  \/ \E c \in Creators : CreateWrite(c)
  \/ \E c \in Creators, sid \in SessionIds, custom \in CustomConfigs \cup { Undefined } :
       LockBegin(c, sid, custom)
  \/ \E c \in Creators : LockGet(c)
  \/ \E c \in Creators : LockGetDocs(c)
  \/ \E c \in Creators : LockCommit(c)
  \/ \E c \in LobbyClients, sid \in SessionIds : mountLobby(c, sid)
  \/ \E c \in LobbyClients : sessionSnapshot(c)
  \/ \E c \in LobbyClients : redirectTimeout(c)
  \/ \E c \in LobbyClients : unmountLobby(c)

\* Snapshots are delivered and timers fire.
SpecRedirect ==
  /\ Init
  /\ [][NextRedirect]_vars
  /\ \A c \in LobbyClients : WF_vars(sessionSnapshot(c)) /\ WF_vars(redirectTimeout(c))

\* The lobby of the host and of the other clients, up to the start of the game.
NextGame ==
  \/ \E c \in Creators : CreateBegin(c)
  \/ \E c \in Creators : CreateCheck(c)
  \/ \E c \in Creators : CreateWrite(c)
  \/ \E c \in Voters, sid \in SessionIds, specs \in SpecsInputs :
       submitSelection(c, sid, specs)
  \/ \E c \in Creators, sid \in SessionIds : listenSelections(c, sid)
  \/ \E c \in Creators, sid \in SessionIds, edited \in CustomConfigs \cup { Undefined } :
       handleLock(c, sid, edited)
  \/ \E c \in Creators : LockGet(c)
  \/ \E c \in Creators : LockGetDocs(c)
  \/ \E c \in Creators : LockCommit(c)
  \/ \E c \in Creators : handleLockStart(c)
  \/ \E c \in Joiners, sid \in SessionIds : listenSessionRedirect(c, sid)

SpecGame == Init /\ [][NextGame]_vars

\* getDoc(doc(db, 'sessions', id)) for any id.
getSessionDoc(id) == IF id \in SessionIds THEN sessions[id] ELSE Absent

\* getDocs(query(collection(db, 'sessions'), where('joinCode', '==', code))):
\* the ids of the matching documents.
queryByJoinCode(code) ==
  { sid \in SessionIds : sessions[sid].exists /\ sessions[sid].joinCode = code }

\* findSessionByCode: normalizedCode; the direct lookup by the lower-cased
\* code, returning the id when the document's joinCode matches.
FindGet(c, joinCode) ==
  /\ call[c].pc = "idle"
  /\ LET normalizedCode == trim(toUpperCase(joinCode))
         id             == toLowerCase(normalizedCode)
         sessionDoc     == getSessionDoc(id)
     IN IF sessionDoc.exists /\ sessionDoc.joinCode = normalizedCode
        THEN /\ reply' = [ op |-> "findSessionByCode", result |-> id, joinCode |-> joinCode ]
             /\ call' = call
        ELSE /\ call' = [ call EXCEPT ![c] =
                            [ pc |-> "query", joinCode |-> joinCode,
                              normalizedCode |-> normalizedCode ] ]
             /\ reply' = reply
  /\ UNCHANGED << sessions, players, selections, clock, lockCommits, lobby, calc, game >>

\* findSessionByCode: the fallback query by the joinCode field; snapshot.docs[0].id
\* or null.
FindQuery(c) ==
  /\ call[c].pc = "query"
  /\ LET found == queryByJoinCode(call[c].normalizedCode)
     IN reply' = [ op |-> "findSessionByCode",
                   result |-> IF found # {} THEN CHOOSE sid \in found : TRUE ELSE "null",
                   joinCode |-> call[c].joinCode ]
  /\ call' = [ call EXCEPT ![c] = Idle ]
  /\ UNCHANGED << sessions, players, selections, clock, lockCommits, lobby, calc, game >>

\* Sessions are created while a joining client looks codes up.
NextFind ==
  \/ \E c \in Creators : CreateBegin(c)
  \/ \E c \in Creators : CreateCheck(c)
  \/ \E c \in Creators : CreateWrite(c)
  \/ \E c \in Joiners, joinCode \in CodeInputs : FindGet(c, joinCode)
  \/ \E c \in Joiners : FindQuery(c)

SpecFind == Init /\ [][NextFind]_vars

\* createSession called from every tab, also while another call is under way.
NextCreate ==
  \/ \E c \in Clients : CreateBegin(c)
  \/ \E c \in Clients : CreateCheck(c)
  \/ \E c \in Clients : CreateWrite(c)

SpecCreate == Init /\ [][NextCreate]_vars

\* The server's time advances.
Tick ==
  /\ clock < MaxClock
  /\ clock' = clock + 1
  /\ UNCHANGED << sessions, players, selections, call, reply, lockCommits, lobby, calc, game >>

\* Participants join, rejoin and report their presence as time passes.
NextJoin ==
  \/ \E c \in Clients, sid \in SessionIds, name \in JoinNames : joinSession(c, sid, name)
  \/ \E c \in Clients, sid \in SessionIds : updatePlayerLastSeen(c, sid)
  \/ Tick

SpecJoin == Init /\ [][NextJoin]_vars

\* The session module when the host passes lockSession any FinalConfig.
NextRange ==
  \/ \E c \in Creators : CreateBegin(c)
  \/ \E c \in Creators : CreateCheck(c)
  \/ \E c \in Creators : CreateWrite(c)
  \/ \E c \in Voters, sid \in SessionIds, specs \in SpecsInputs :
       submitSelection(c, sid, specs)
  \/ \E c \in Creators, sid \in SessionIds, custom \in CustomConfigs \cup OutOfRangeConfigs :
       LockBegin(c, sid, custom)
  \/ \E c \in Creators : LockGet(c)
  \/ \E c \in Creators : LockGetDocs(c)
  \/ \E c \in Creators : LockCommit(c)

SpecRange == Init /\ [][NextRange]_vars

(***************************************************************************)
(* The aggregation module called on its own                                *)
(***************************************************************************)

Reverse(s) == [ i \in 1..Len(s) |-> s[Len(s) + 1 - i] ]

\* Orders in which the fields of a FinalConfig object can have been declared:
\* as in the interface, backwards, sorted, and the dials before the rest.
KeyOrders ==
  { FinalConfigFields, Reverse(FinalConfigFields), FinalConfigKeys,
    Dials \o << "agent_goal", "model" >> }

\* The configs passed to hashConfig called on its own.
HashInputs ==
  CustomConfigs \cup OutOfRangeConfigs
  \cup { AggregateConfig(sels) : sels \in SelectionLists }

InitAgg ==
  /\ InitStore
  /\ calc \in { [ op |-> "computeFinalConfig", pc |-> "call", selections |-> sels ] :
                  sels \in AggInputs }
             \cup { [ op |-> "hashConfig", pc |-> "call", keys |-> keys, config |-> config ] :
                     keys \in KeyOrders, config \in HashInputs }

\* computeFinalConfig(selections) returns.
CallComputeFinalConfig ==
  /\ calc.op = "computeFinalConfig"
  /\ calc.pc = "call"
  /\ calc' = [ op |-> "computeFinalConfig", pc |-> "return",
               selections |-> calc.selections,
               result |-> computeFinalConfig(calc.selections, clock) ]
  /\ UNCHANGED << sessions, players, selections, clock, call, reply, lockCommits, lobby, game >>

\* hashConfig(config) returns.
CallHashConfig ==
  /\ calc.op = "hashConfig"
  /\ calc.pc = "call"
  /\ calc' = [ op |-> "hashConfig", pc |-> "return",
               keys |-> calc.keys, config |-> calc.config,
               result |-> hashConfigObject(calc.keys, calc.config) ]
  /\ UNCHANGED << sessions, players, selections, clock, call, reply, lockCommits, lobby, game >>

NextAgg ==
  \/ CallComputeFinalConfig
  \/ CallHashConfig

SpecAgg == InitAgg /\ [][NextAgg]_vars

(***************************************************************************)
(* Properties                                                              *)
(***************************************************************************)

\* A step in which the lockSession call of tab c returns or throws.
LockEnds(c) ==
  /\ call[c].pc \in { "get", "getDocs", "commit" }
  /\ call'[c] = Idle

\* A step in which the transaction of tab c is rerun by the store.
LockReruns(c) ==
  /\ call[c].pc = "commit"
  /\ call'[c].pc = "get"

LockFailures == { "NotFound", "InvalidState", "Unauthorized", "StoreFailure" }

HasConfig(sessionDoc) ==
  /\ "finalConfig" \in DOMAIN sessionDoc
  /\ "finalConfigMeta" \in DOMAIN sessionDoc

\* C1: among the lockSession calls running against a session record, at most
\* one commits: the record is locked exactly when one commit was made on it, and
\* a call that ends after that commit fails and writes nothing.
C1_OneLockCommit ==
  [][ \A sid \in SessionIds :
        /\ lockCommits'[sid] <= 1
        /\ sessions'[sid].exists =>
             ((sessions'[sid].status = "locked") <=> (lockCommits'[sid] = 1))
        /\ \A c \in Clients :
             (/\ LockEnds(c) \/ LockReruns(c)
              /\ call[c].sessionId = sid
              /\ lockCommits[sid] = 1)
             => /\ storeVars' = storeVars
                /\ LockEnds(c) => reply'.result \in LockFailures ]_vars

\* C1 witness: one call has committed while a concurrent call that read the
\* session in lobby is still waiting to commit.
C1_Witness ==
  \E sid \in SessionIds, c \in Clients :
    /\ lockCommits[sid] = 1
    /\ call[c].pc = "commit"
    /\ call[c].sessionId = sid
    /\ call[c].read.status = "lobby"

\* C2: a session record has finalConfig and finalConfigMeta exactly when its
\* status is not lobby, and never one of the two fields without the other.
C2_ConfigIffNotLobby ==
  \A sid \in SessionIds :
    sessions[sid].exists =>
      /\ HasConfig(sessions[sid]) <=> (sessions[sid].status # "lobby")
      /\ ("finalConfig" \in DOMAIN sessions[sid])
           <=> ("finalConfigMeta" \in DOMAIN sessions[sid])

\* C2 witness: a locked session, which holds both fields.
C2_Witness ==
  \E sid \in SessionIds :
    /\ sessions[sid].exists
    /\ sessions[sid].status = "locked"
    /\ HasConfig(sessions[sid])

StatusRank(status) ==
  CASE status = "lobby" -> 0
    [] status = "locked" -> 1
    [] status = "ended" -> 2

\* C3: a session's status only moves forward along lobby, locked, ended: a
\* session starts in lobby and no step takes its status back.
C3_StatusForward ==
  [][ \A sid \in SessionIds :
        IF sessions[sid].exists
        THEN /\ sessions'[sid].exists
             /\ StatusRank(sessions[sid].status) <= StatusRank(sessions'[sid].status)
        ELSE sessions'[sid].exists => sessions'[sid].status = "lobby" ]_vars

\* C4: a lockSession call that fails, and a transaction that is rerun, leave
\* the session, player and selection records as they were, and a failing call
\* reports its failure to the caller; a call that ends reports ok only if it
\* wrote the session.
C4_FailedLockWritesNothing ==
  [][ \A c \in Clients :
        /\ LockReruns(c) => storeVars' = storeVars
        /\ LockEnds(c) =>
             /\ reply'.op = "lockSession"
             /\ reply'.result \in LockFailures \cup { "ok" }
             /\ reply'.result \in LockFailures => storeVars' = storeVars
             /\ reply'.result = "ok" => sessions' # sessions
             /\ players' = players
             /\ selections' = selections ]_vars

\* C4 witness: a lock of a lobby session by its host has failed in the store
\* while the session holds selections, and the session is still in lobby.
C4_Witness ==
  \E sid \in SessionIds :
    /\ reply = Reply("lockSession", "StoreFailure")
    /\ sessions[sid].exists
    /\ sessions[sid].status = "lobby"
    /\ getDocs(selections[sid]) # << >>

\* C5: a session goes from lobby to locked only in the commit of a lockSession
\* call whose caller's host id is the session's hostId, and a call by another
\* identity that reads a lobby session fails as Unauthorized and leaves the
\* session as it was.
C5_OnlyHostLocks ==
  [][ \A sid \in SessionIds :
        /\ (/\ sessions[sid].exists
            /\ sessions[sid].status = "lobby"
            /\ sessions'[sid].status = "locked")
           => \E c \in Clients :
                /\ call[c].pc = "commit"
                /\ call'[c] = Idle
                /\ call[c].sessionId = sid
                /\ getHostId(c) = sessions[sid].hostId
        /\ \A c \in Clients :
             (/\ call[c].pc = "get"
              /\ call'[c] # call[c]
              /\ call[c].sessionId = sid
              /\ sessions[sid].exists
              /\ sessions[sid].status = "lobby"
              /\ getHostId(c) # sessions[sid].hostId
              /\ reply'.result # "StoreFailure")
             => /\ reply' = Reply("lockSession", "Unauthorized")
                /\ call'[c] = Idle
                /\ sessions' = sessions ]_vars

\* C5 witness: a lockSession call by a client that is not the host has been
\* refused as Unauthorized on a session that is in lobby.
C5_Witness ==
  \E sid \in SessionIds :
    /\ reply = Reply("lockSession", "Unauthorized")
    /\ sessions[sid].exists
    /\ sessions[sid].status = "lobby"

\* The selections of a snapshot whose key is not hostId.
NotKeyedUnder(docs, hostId) == SelectSeq(docs, LAMBDA sel : sel.id # hostId)

\* A step in which the lockSession call of tab c commits.
LockCommits(c) ==
  /\ call[c].pc = "commit"
  /\ call'[c] = Idle
  /\ reply'.result = "ok"

C7_HostSelectionNeverCounted ==
  [][ \A c \in Creators :
        /\ (lobby'[c] # lobby[c])
           => lobby'[c].previewConfig =
                AggregateConfig(SpecsOf(NotFromHostDevice(
                  lobby'[c].selections, sessions[lobby'[c].sessionId].hostId)))
        /\ (LockCommits(c) /\ call[c].customConfig = Undefined)
           => sessions'[call[c].sessionId].finalConfig =
                AggregateConfig(SpecsOf(NotFromHostDevice(
                  call[c].docs, sessions[call[c].sessionId].hostId))) ]_vars

C9_NoSelectionAfterLock ==
  [][ /\ \A sid \in SessionIds :
           (sessions[sid].exists /\ sessions[sid].status # "lobby")
           => selections'[sid] = selections[sid]
      /\ (/\ reply'.op = "submitSelection"
          /\ reply' # reply
          /\ \A sid \in SessionIds :
               sessions[sid].exists /\ sessions[sid].status # "lobby")
         => reply'.result = "InvalidState" ]_vars

\* C9 witness: a submitSelection call has been rejected on a locked session
\* that holds a selection record.
C9_Witness ==
  \E sid \in SessionIds :
    /\ sessions[sid].exists
    /\ sessions[sid].status = "locked"
    /\ getDocs(selections[sid]) # << >>
    /\ reply = Reply("submitSelection", "InvalidState")

\* A step in which a createSession call writes the document of session sid.
CreateWrites(sid) ==
  \E c \in Clients :
    /\ call[c].pc = "write"
    /\ call'[c] = Idle
    /\ call[c].sessionId = sid

\* C10: once a session is locked, no step of lockSession, submitSelection,
\* joinSession or updatePlayerLastSeen changes its finalConfig or
\* finalConfigMeta, or its status.
C10_LockedConfigImmutable ==
  [][ \A sid \in SessionIds :
        (/\ sessions[sid].exists
         /\ sessions[sid].status = "locked"
         /\ ~ CreateWrites(sid))
        => /\ sessions'[sid].status = "locked"
           /\ sessions'[sid].finalConfig = sessions[sid].finalConfig
           /\ sessions'[sid].finalConfigMeta = sessions[sid].finalConfigMeta ]_vars

\* C10 witness: a later lockSession call with an override has been refused on
\* a session that was locked without one.
C10_Witness ==
  \E sid \in SessionIds :
    /\ sessions[sid].exists
    /\ sessions[sid].status = "locked"
    /\ sessions[sid].finalConfigMeta.methodVersion = "v1"
    /\ reply = Reply("lockSession", "InvalidState")

\* A step in which the lockSession call of tab c reads the selections.
LockReads(c) ==
  /\ call[c].pc = "getDocs"
  /\ call'[c].pc = "commit"

\* C11: the selectionCount a lock persists is the number of selection records
\* it read: on the aggregated path the number of selections the aggregate was
\* computed from, on the host-override path the number of the session's
\* selection records when the lock read them.
C11_SelectionCountIsRecordsRead ==
  [][ \A c \in Clients :
        /\ LockReads(c) =>
             LET docs == getDocs(selections[call[c].sessionId])
             IN /\ call'[c].meta.selectionCount = Len(docs)
                /\ call[c].customConfig = Undefined =>
                     call'[c].finalConfig = AggregateConfig(SpecsOf(docs))
        /\ LockCommits(c) =>
             sessions'[call[c].sessionId].finalConfigMeta.selectionCount
               = Len(call[c].docs) ]_vars

\* C11 witness: a session locked with a host override while it held two
\* selection records, with selectionCount 2.
C11_Witness ==
  \E sid \in SessionIds :
    /\ sessions[sid].exists
    /\ sessions[sid].status = "locked"
    /\ sessions[sid].finalConfigMeta.methodVersion = "v1-host-edited"
    /\ sessions[sid].finalConfigMeta.selectionCount = 2
    /\ Len(getDocs(selections[sid])) = 2

\* C12: a lockSession given a host override persists exactly that config with
\* the tag v1-host-edited, and a lock without override persists the tag v1.
C12_OverrideVerbatim ==
  [][ \A c \in Clients :
        LockCommits(c) =>
          LET locked == sessions'[call[c].sessionId]
          IN IF call[c].customConfig # Undefined
             THEN /\ locked.finalConfig = call[c].customConfig
                  /\ locked.finalConfigMeta.methodVersion = "v1-host-edited"
             ELSE locked.finalConfigMeta.methodVersion = "v1" ]_vars

\* C12 witness: a session locked with the host's override although its two
\* selection records aggregate to another config.
C12_Witness ==
  \E sid \in SessionIds :
    /\ sessions[sid].exists
    /\ sessions[sid].status = "locked"
    /\ sessions[sid].finalConfigMeta.methodVersion = "v1-host-edited"
    /\ sessions[sid].finalConfig \in CustomConfigs
    /\ Len(getDocs(selections[sid])) = 2
    /\ AggregateConfig(SpecsOf(getDocs(selections[sid]))) # sessions[sid].finalConfig

\* C13: in every locked session configId is hashConfig of the finalConfig of
\* the same record.
C13_ConfigIdIsHash ==
  \A sid \in SessionIds :
    (sessions[sid].exists /\ sessions[sid].status = "locked")
    => sessions[sid].finalConfigMeta.configId = hashConfig(sessions[sid].finalConfig)

\* C13 witness: a session locked with a host override, and so with the
\* override's hash, while its selections aggregate to a config of another hash.
C13_Witness ==
  \E sid \in SessionIds :
    /\ sessions[sid].exists
    /\ sessions[sid].status = "locked"
    /\ sessions[sid].finalConfigMeta.methodVersion = "v1-host-edited"
    /\ sessions[sid].finalConfigMeta.configId = hashConfig(sessions[sid].finalConfig)
    /\ hashConfig(AggregateConfig(SpecsOf(getDocs(selections[sid]))))
         # sessions[sid].finalConfigMeta.configId

\* A call of computeFinalConfig that has returned.
Computed == calc.op = "computeFinalConfig" /\ calc.pc = "return"

\* C14: computeFinalConfig of an empty sequence returns the fixed default
\* configuration (every dial 0, model DeepSeek-R1, agent_goal none) with
\* selectionCount 0.
C14_EmptyGivesDefault ==
  (Computed /\ calc.selections = << >>)
  => /\ \A i \in 1..Len(Dials) : calc.result.finalConfig[Dials[i]] = 0
     /\ calc.result.finalConfig.model = "DeepSeek-R1"
     /\ calc.result.finalConfig.agent_goal = "none"
     /\ DOMAIN calc.result.finalConfig = Range(Dials) \cup { "model", "agent_goal" }
     /\ calc.result.meta.selectionCount = 0

C14_Witness ==
  /\ Computed
  /\ calc.selections = << >>
  /\ calc.result.meta.selectionCount = 0
  /\ calc.result.finalConfig.model = "DeepSeek-R1"

\* The position of a value in a priority list.
IndexIn(order, v) == CHOOSE k \in 1..Len(order) : order[k] = v

\* The value with the most votes; of several with the most votes, the one
\* that comes first in the priority list.
PriorityWinner(votes, order) ==
  LET most == CHOOSE n \in 1..Len(votes) :
                /\ \E v \in Range(votes) : CountOf(votes, v) = n
                /\ \A v \in Range(votes) : CountOf(votes, v) <= n
      tied == { v \in Range(votes) : CountOf(votes, v) = most }
  IN CHOOSE v \in tied : \A w \in tied : IndexIn(order, v) <= IndexIn(order, w)

Clamped(v) == IF v < 0 THEN 0 ELSE IF v > 3 THEN 3 ELSE v

\* The most frequent clamped vote, the highest of those equally frequent.
HighestMode(votes) ==
  LET cl      == [ i \in 1..Len(votes) |-> Clamped(votes[i]) ]
      Freq(v) == CountOf(cl, v)
      modes   == { v \in 0..3 : Freq(v) > 0 /\ \A w \in 0..3 : Freq(w) <= Freq(v) }
  IN CHOOSE v \in modes : \A w \in modes : w <= v

ClampedSelection(sel) ==
  [ f \in DOMAIN sel |-> IF f \in Range(Dials) THEN Clamped(sel[f]) ELSE sel[f] ]

\* C17: an ordinal vote outside [0,3] counts exactly like its clamped value,
\* and every dial of the returned config is an integer in [0,3].
C17_VotesClamped ==
  Computed
  => /\ calc.result.finalConfig
          = AggregateConfig([ i \in 1..Len(calc.selections) |->
                                ClampedSelection(calc.selections[i]) ])
     /\ \A i \in 1..Len(Dials) : calc.result.finalConfig[Dials[i]] \in 0..3

\* Votes of 5 and of -1 that win their dials.
C17_Witness ==
  /\ Computed
  /\ Column(calc.selections, "adaptive_learning") = << 5, 5, 0 - 1 >>
  /\ Column(calc.selections, "sandbox") = << 0 - 1, 0 - 1, 5 >>
  /\ calc.result.finalConfig.adaptive_learning = 3
  /\ calc.result.finalConfig.sandbox = 0

\* C18: every boundary and oversight value held in the store is an integer in
\* [0,3], in the specs of every selection record and in every finalConfig,
\* a finalConfig that comes from a host override included.
C18_StoredDialsInRange ==
  \A sid \in SessionIds :
    /\ \A id \in DocIds :
         selections[sid][id].exists
         => \A i \in 1..Len(Dials) : selections[sid][id].specs[Dials[i]] \in 0..3
    /\ (sessions[sid].exists /\ HasConfig(sessions[sid]))
         => \A i \in 1..Len(Dials) : sessions[sid].finalConfig[Dials[i]] \in 0..3

\* The list sels in the order given by the permutation p of its indices.
Reordered(sels, p) == [ i \in 1..Len(sels) |-> sels[p[i]] ]

\* C19: computeFinalConfig is order-independent: for every list of selections
\* and every permutation of it, the returned finalConfig, selectionCount and
\* configId are the same.
C19_OrderIndependent ==
  Computed
  => \A p \in Permutations(1..Len(calc.selections)) :
       LET again == computeFinalConfig(Reordered(calc.selections, p), clock)
       IN /\ again.finalConfig = calc.result.finalConfig
          /\ again.meta.selectionCount = calc.result.meta.selectionCount
          /\ again.meta.configId = calc.result.meta.configId

\* Three models with one vote each, the first in priority voted second; the
\* goals voted with them tie as well.
C19_Witness ==
  /\ Computed
  /\ Column(calc.selections, "model")
       = << VALID_MODELS[3], VALID_MODELS[1], VALID_MODELS[2] >>
  /\ calc.result.finalConfig.model = VALID_MODELS[1]
  /\ calc.result.meta.selectionCount = 3
  /\ calc.result.meta.configId
       = hashConfig(AggregateConfig(Reordered(calc.selections, << 3, 2, 1 >>)))

\* A call of hashConfig that has returned.
Hashed == calc.op = "hashConfig" /\ calc.pc = "return"

\* C20: hashConfig returns the same identifier for configs with equal field
\* values whatever the order in which their fields were declared.
C20_HashIgnoresFieldOrder ==
  Hashed
  => /\ \A keys \in KeyOrders : hashConfigObject(keys, calc.config) = calc.result
     /\ calc.result = hashConfig(calc.config)

\* The fields declared backwards, hashed like the fields in interface order.
C20_Witness ==
  /\ Hashed
  /\ calc.keys = Reverse(FinalConfigFields)
  /\ calc.keys # FinalConfigKeys
  /\ calc.config \in CustomConfigs
  /\ calc.result = hashConfigObject(FinalConfigFields, calc.config)

\* A selection of the list names a model or a goal that is not a valid value.
HasUnknownVote(sels) ==
  \E i \in 1..Len(sels) :
    \/ sels[i].model \notin Range(VALID_MODELS)
    \/ sels[i].agent_goal \notin Range(VALID_GOALS)

\* C21: computeFinalConfig rejects any input with a selection whose model or
\* agent_goal is not a valid value: it returns no config for it.
C21_UnknownVoteRejected ==
  (Computed /\ HasUnknownVote(calc.selections))
  => "finalConfig" \notin DOMAIN calc.result

\* The participant id kept in each device's localStorage.
ParticipantOf == [ d1 |-> "player_d1", d2 |-> "player_d2" ]

\* A submitSelection call by tab c that the store accepted.
Submits(c, sid, specs) ==
  /\ submitSelection(c, sid, specs)
  /\ reply'.result = "ok"

\* C22: a session holds at most one selection record per participant, keyed
\* by the participant id, and an accepted submission leaves in it the specs
\* just submitted (overwritten, not appended); nothing but a submission
\* writes selection records.
C22_OneRecordLastWriteWins ==
  [][ /\ \A c \in Voters, sid \in SessionIds, specs \in SpecsInputs :
          Submits(c, sid, specs) =>
            LET p == ParticipantOf[DeviceOf[c]]
            IN /\ selections'[sid][p].exists
               /\ selections'[sid][p].specs = specs
               /\ { id \in DocIds : /\ selections'[sid][id].exists
                                     /\ selections'[sid][id].playerId = p } = { p }
      /\ selections' # selections =>
            \E c \in Voters, sid \in SessionIds, specs \in SpecsInputs :
              Submits(c, sid, specs) ]_vars

\* The host's lobby still shows the specs a participant submitted first, and
\* the store holds, in the same record, the specs submitted after them.
C22_Witness ==
  \E c \in Creators, sid \in SessionIds :
    /\ lobby[c] # NoLobby
    /\ \E i \in 1..Len(lobby[c].selections) :
         /\ lobby[c].selections[i].id = "player_d2"
         /\ lobby[c].selections[i].data.specs = SampleSpecs[1]
    /\ selections[sid]["player_d2"].exists
    /\ selections[sid]["player_d2"].specs = SampleSpecs[2]
    /\ reply = Reply("submitSelection", "ok")

\* C23: a submitSelection by a participant changes that participant's own
\* selection record and no other: no submission overwrites or removes the
\* record of another participant.
C23_SubmissionTouchesOwnRecordOnly ==
  [][ \A c \in Voters, sid \in SessionIds, specs \in SpecsInputs :
        submitSelection(c, sid, specs) =>
          \A other \in SessionIds, id \in DocIds :
            (other # sid \/ id # ParticipantOf[DeviceOf[c]])
            => selections'[other][id] = selections[other][id] ]_vars

\* Two participants have submitted different specs and each record holds its
\* owner's.
C23_Witness ==
  \E sid \in SessionIds :
    /\ selections[sid]["player_d1"].exists
    /\ selections[sid]["player_d1"].specs = SampleSpecs[2]
    /\ selections[sid]["player_d2"].exists
    /\ selections[sid]["player_d2"].specs = SampleSpecs[1]
    /\ "playerName" \notin DOMAIN selections[sid]["player_d2"]
    /\ reply = Reply("submitSelection", "ok")

\* C24: after a participant joins a session, once or again, there is exactly
\* one Player record for the (session, participant) pair, its timestamps
\* are those of the latest join, no other record has changed, and the call
\* succeeds with or without a display name.
C24_JoinIdempotent ==
  [][ \A c \in Clients, sid \in SessionIds, name \in JoinNames :
        joinSession(c, sid, name) =>
          LET p == ParticipantOf[DeviceOf[c]]
          IN /\ reply' = Reply("joinSession", "ok")
             /\ players'[sid][p].exists
             /\ players'[sid][p].joinedAt = clock
             /\ players'[sid][p].lastSeenAt = clock
             /\ \A other \in SessionIds, id \in DocIds :
                  (other # sid \/ id # p) => players'[other][id] = players[other][id] ]_vars

\* A participant without a display name has a record stamped after the
\* start, next to the one record of the other participant.
C24_Witness ==
  \E sid \in SessionIds :
    /\ players[sid]["player_d2"].exists
    /\ players[sid]["player_d2"].joinedAt = MaxClock
    /\ "playerName" \notin DOMAIN players[sid]["player_d2"]
    /\ players[sid]["player_d1"].exists
    /\ players[sid]["player_d1"].joinedAt = 0
    /\ { id \in DocIds : players[sid][id].exists } = { "player_d1", "player_d2" }
    /\ reply = Reply("joinSession", "ok")

\* C25: createSession never reuses the storage key of an existing session:
\* the step that writes the session document finds no document under its key.
C25_NoSessionOverwritten ==
  [][ \A sid \in SessionIds : CreateWrites(sid) => ~ sessions[sid].exists ]_vars

\* A step of a lockSession call by tab c.
LockSteps(c) ==
  /\ call[c].pc \in { "idle", "get", "getDocs", "commit" }
  /\ call'[c] # call[c]
  /\ \/ call[c].pc # "idle" /\ "customConfig" \in DOMAIN call[c]
     \/ call[c].pc = "idle" /\ call'[c].pc = "get"

\* The session a step of tab c's lockSession call is about.
LockTarget(c) == IF call[c].pc = "idle" THEN call'[c].sessionId ELSE call[c].sessionId

\* C26: no joinSession, submitSelection or updatePlayerLastSeen, and no step
\* of a lockSession call made by someone who is not the session's host,
\* changes any field of a Session record.
C26_NonHostLeavesSession ==
  [][ /\ \A c \in Clients, sid \in SessionIds :
          (\/ \E name \in NameInputs : joinSession(c, sid, name)
           \/ updatePlayerLastSeen(c, sid)
           \/ \E specs \in SpecsInputs : submitSelection(c, sid, specs))
          => sessions' = sessions
      /\ \A c \in Clients :
          (/\ LockSteps(c)
           /\ \/ ~ sessions[LockTarget(c)].exists
              \/ sessions[LockTarget(c)].hostId # getHostId(c))
          => sessions' = sessions ]_vars

\* A participant who is not the host has joined, voted and been refused the
\* lock, and the session is as createSession wrote it.
C26_Witness ==
  \E sid \in SessionIds :
    /\ sessions[sid] = sessionData(sid, "host_d1", 0)
    /\ players[sid]["player_d2"].exists
    /\ selections[sid]["player_d2"].exists
    /\ reply = Reply("lockSession", "Unauthorized")
    /\ call["t3"] = Idle

\* The spellings of a storage key's join code.
SpellingsOf(sid) ==
  IF sid = "abc234" THEN { "ABC234", "abc234", "Abc234", " abc234 " } ELSE { }

\* A step in which a findSessionByCode call returns.
FindReturns ==
  /\ reply'.op = "findSessionByCode"
  /\ \/ reply' # reply
     \/ \E c \in Clients : call[c].pc = "query" /\ call'[c] = Idle

\* C28: findSessionByCode called with the join code of a session that
\* createSession has written, in any letter case, returns that session's
\* storage key, and returns null for a code that matches no session.
C28_FindByCode ==
  [][ FindReturns =>
        LET matching == { sid \in SessionIds :
                            /\ sessions[sid].exists
                            /\ reply'.joinCode \in SpellingsOf(sid) }
        IN IF matching = {} THEN reply'.result = "null"
           ELSE reply'.result \in matching ]_vars

\* The code of an existing session, typed in mixed case, was found.
C28_Witness ==
  /\ reply.op = "findSessionByCode"
  /\ reply.joinCode = "Abc234"
  /\ reply.result = "abc234"
  /\ sessions["abc234"].exists
  /\ sessions["abc234"].joinCode = "ABC234"

\* The k-th smallest of the votes.
KthSmallest(votes, k) ==
  CHOOSE v \in Range(votes) :
    /\ Cardinality({ i \in 1..Len(votes) : votes[i] < v }) < k
    /\ Cardinality({ i \in 1..Len(votes) : votes[i] <= v }) >= k

\* The median of the votes (the mean of the middle two for an even number,
\* rounded as Math.round does), brought into [0,3].
SnappedMedian(votes) ==
  LET n == Len(votes)
  IN IF n % 2 = 1 THEN Clamped(KthSmallest(votes, (n + 1) \div 2))
     ELSE Clamped((KthSmallest(votes, n \div 2) + KthSmallest(votes, n \div 2 + 1) + 1) \div 2)

VotesFor(votes, v) == Cardinality({ i \in 1..Len(votes) : Clamped(votes[i]) = v })

C30_AllPlayStoredConfig ==
  \A c \in Clients :
    (/\ game[c].started
     /\ sessions[game[c].sessionId].exists
     /\ sessions[game[c].sessionId].status = "locked")
    => game[c].config = sessions[game[c].sessionId].finalConfig

(***************************************************************************)
(* Records under a session key that has no session                         *)
(***************************************************************************)

\* C31: joinSession and submitSelection on a session key with no session
\* record create nothing: in every reachable state a player record or a
\* selection record exists only under a session that exists.
C31_RecordsOnlyUnderSession ==
  \A sid \in SessionIds :
    (\E id \in DocIds : players[sid][id].exists \/ selections[sid][id].exists)
      => sessions[sid].exists

(***************************************************************************)
(* Retries                                                                 *)
(***************************************************************************)

\* The host's two tabs create and lock while a participant joins and votes,
\* with the scheduling of an awaited store call: a createSession call that
\* waits for getDoc or setDoc is resumed.
NextRetry ==
  \/ \E c \in Creators : CreateBegin(c)
  \/ \E c \in Creators : CreateCheck(c)
  \/ \E c \in Creators : CreateWrite(c)
  \/ \E c \in Joiners, sid \in SessionIds, name \in NameInputs : joinSession(c, sid, name)
  \/ \E c \in Joiners, sid \in SessionIds : updatePlayerLastSeen(c, sid)
  \/ \E c \in Joiners, sid \in SessionIds, specs \in SpecsInputs :
       submitSelection(c, sid, specs)
  \/ \E c \in Editors, sid \in SessionIds : LockBegin(c, sid, Undefined)
  \/ \E c \in Editors : LockGet(c)
  \/ \E c \in Editors : LockGetDocs(c)
  \/ \E c \in Editors : LockCommit(c)

SpecRetry ==
  /\ Init
  /\ [][NextRetry]_vars
  /\ \A c \in Creators : WF_vars(CreateCheck(c) \/ CreateWrite(c))

\* A step in which the createSession call of tab c reads the store.
CreateReads(c) ==
  /\ call[c].pc = "check"
  /\ call'[c] # call[c]

\* A step in which the createSession call of tab c writes and returns.
CreateReturns(c) ==
  /\ call[c].pc = "write"
  /\ call'[c] # call[c]

\* The loop of createSession: a read is one of the first 10 of its call and
\* writes nothing, the code is drawn again at most 10 times, the call writes
\* the session once and returns at once, and a call under way returns.
CreateLoopBounded ==
  /\ [][ \A c \in Clients :
           /\ CreateReads(c) =>
                /\ call[c].attempts < 10
                /\ call'[c].attempts <= 10
                /\ call'[c].pc \in { "check", "write" }
                /\ storeVars' = storeVars
           /\ CreateReturns(c) =>
                /\ call'[c] = Idle
                /\ reply' = Reply("createSession", "ok")
                /\ sessions'[call[c].sessionId].exists
                /\ UNCHANGED << players, selections >> ]_vars
  /\ \A c \in Creators : (call[c].pc \in { "check", "write" }) ~> (call[c] = Idle)

SelectionIds(sid) == { id \in DocIds : selections[sid][id].exists }

\* A step that writes a selection record.
SelectionWritten == selections' # selections

\* C33: a selection whose submission completed before a lockSession call
\* without override started is among the selections the lock aggregates, and
\* a selection written after the commit changes neither the stored finalConfig
\* nor the selectionCount.  A record once written stays in the store, the
\* lock's read after its start holds every record of the session as it is in
\* the store, the commit persists the aggregate and the count of that read,
\* and no write of a selection touches a session record.
C33_LockSeesEarlierSelections ==
  [][ /\ \A sid \in SessionIds, id \in DocIds :
           selections[sid][id].exists => selections'[sid][id].exists
      /\ \A c \in Clients :
           /\ (LockReads(c) /\ call[c].customConfig = Undefined) =>
                LET sid  == call[c].sessionId
                    docs == call'[c].docs
                IN /\ { docs[i].id : i \in 1..Len(docs) } = SelectionIds(sid)
                   /\ Len(docs) = Cardinality(SelectionIds(sid))
                   /\ \A i \in 1..Len(docs) : docs[i].data = selections[sid][docs[i].id]
                   /\ call'[c].finalConfig = AggregateConfig(SpecsOf(docs))
           /\ (LockCommits(c) /\ call[c].customConfig = Undefined) =>
                LET sid == call[c].sessionId
                IN /\ sessions'[sid].finalConfig = AggregateConfig(SpecsOf(call[c].docs))
                   /\ sessions'[sid].finalConfigMeta.selectionCount = Len(call[c].docs)
      /\ SelectionWritten => sessions' = sessions
      /\ \A sid \in SessionIds :
           (lockCommits[sid] = 1 /\ ~ CreateWrites(sid)) =>
             /\ sessions'[sid].finalConfig = sessions[sid].finalConfig
             /\ sessions'[sid].finalConfigMeta = sessions[sid].finalConfigMeta ]_vars

\* C33 witness: a session locked without override holds the aggregate of the
\* two selections that were in the store, and a submission made after the
\* commit has been refused.
C33_Witness ==
  \E sid \in SessionIds :
    /\ sessions[sid].exists
    /\ sessions[sid].status = "locked"
    /\ sessions[sid].finalConfigMeta.methodVersion = "v1"
    /\ Cardinality(SelectionIds(sid)) = 2
    /\ sessions[sid].finalConfig =
         AggregateConfig(SpecsOf(getDocs(selections[sid])))
    /\ reply = Reply("submitSelection", "InvalidState")

(***************************************************************************)
(* The statuses in use                                                     *)
(***************************************************************************)

\* C34: no operation of the session module writes the status ended: in every
\* reachable state a session record's status is lobby or locked.
C34_StatusLobbyOrLocked ==
  \A sid \in SessionIds :
    sessions[sid].exists => sessions[sid].status \in { "lobby", "locked" }

\* C34 witness: a session has gone through its whole life in the module: it
\* was created, locked, and a further lockSession on it has been refused.
C34_Witness ==
  \E sid \in SessionIds :
    /\ sessions[sid].exists
    /\ sessions[sid].status = "locked"
    /\ reply = Reply("lockSession", "InvalidState")

(***************************************************************************)
(* The aggregate is made of votes                                          *)
(***************************************************************************)

\* The values of a field that were cast and are among the valid ones.
ValidCast(sels, field, valid) ==
  { sels[i][field] : i \in 1..Len(sels) } \cap Range(valid)

\* C35: for a non-empty input every field of the config computeFinalConfig
\* returns is a value some participant voted for: each dial is the clamped
\* value of at least one vote cast for that dial, and model and agent_goal
\* are among the valid values cast for the field when there is one.
C35_EveryFieldWasVotedFor ==
  (Computed /\ Len(calc.selections) > 0)
  => LET sels   == calc.selections
         config == calc.result.finalConfig
     IN /\ \A k \in 1..Len(Dials) :
             \E i \in 1..Len(sels) : Clamped(sels[i][Dials[k]]) = config[Dials[k]]
        /\ ValidCast(sels, "model", VALID_MODELS) # {}
             => config.model \in ValidCast(sels, "model", VALID_MODELS)
        /\ ValidCast(sels, "agent_goal", VALID_GOALS) # {}
             => config.agent_goal \in ValidCast(sels, "agent_goal", VALID_GOALS)

\* C35 witness: of two votes one names an unknown model and the other a valid
\* model that is not the head of the priority list; the valid one is returned.
C35_Witness ==
  /\ Computed
  /\ Len(calc.selections) = 2
  /\ HasUnknownVote(calc.selections)
  /\ ValidCast(calc.selections, "model", VALID_MODELS) # {}
  /\ VALID_MODELS[1] \notin ValidCast(calc.selections, "model", VALID_MODELS)
  /\ calc.result.finalConfig.model \in ValidCast(calc.selections, "model", VALID_MODELS)

(***************************************************************************)
(* What a lock leaves alone                                                *)
(***************************************************************************)

\* The fields lockSession's update names.
LockFields == { "status", "lockedAt", "finalConfig", "finalConfigMeta" }

\* C36: a successful lockSession changes only the status, lockedAt,
\* finalConfig and finalConfigMeta of its session: every other field of the
\* session record (hostId, joinCode, createdAt), every other session, every
\* player record and every selection record are after the commit what they
\* were before it, and the steps before the commit write nothing at all.
C36_LockChangesLockFieldsOnly ==
  [][ \A c \in Clients :
        /\ LockCommits(c) =>
             LET sid == call[c].sessionId
             IN /\ DOMAIN sessions'[sid] = DOMAIN sessions[sid] \cup LockFields
                /\ \A f \in DOMAIN sessions[sid] \ LockFields :
                     sessions'[sid][f] = sessions[sid][f]
                /\ sessions'[sid].hostId = sessions[sid].hostId
                /\ sessions'[sid].joinCode = sessions[sid].joinCode
                /\ sessions'[sid].createdAt = sessions[sid].createdAt
                /\ \A other \in SessionIds \ { sid } : sessions'[other] = sessions[other]
                /\ players' = players
                /\ selections' = selections
        /\ (LockSteps(c) /\ ~ LockCommits(c)) => storeVars' = storeVars ]_vars

\* C36 witness: a session that holds a player record and two selection
\* records has been locked, and the records are there as before.
C36_Witness ==
  \E sid \in SessionIds :
    /\ sessions[sid].exists
    /\ sessions[sid].status = "locked"
    /\ reply = Reply("lockSession", "ok")
    /\ \E id \in DocIds : players[sid][id].exists
    /\ Cardinality({ id \in DocIds : selections[sid][id].exists }) = 2
    /\ sessions[sid].finalConfigMeta.selectionCount = 2

(***************************************************************************)
(* The auto-redirect                                                       *)
(***************************************************************************)

\* A step in which tab c's lobby calls onStartGame from its redirect timer.
AutoStarts(c) ==
  /\ "starts" \in DOMAIN game[c]
  /\ "starts" \in DOMAIN game'[c]
  /\ game'[c].starts = game[c].starts + 1

\* A step in which tab c's listener schedules the redirect.
SchedulesRedirect(c) ==
  /\ Subscribed(c)
  /\ game[c].timeout = Undefined
  /\ "timeout" \in DOMAIN game'[c]
  /\ game'[c].timeout # Undefined

\* C37: the auto-redirect calls onStartGame at most once per subscription,
\* only after the client received a snapshot of the session with status
\* locked and a finalConfig, with that snapshot's finalConfig, and never
\* after the component has unsubscribed; a client whose host id is the
\* session's is never redirected by the listener.
C37_RedirectOncePerSubscription ==
  [][ \A c \in Clients :
        /\ SchedulesRedirect(c) =>
             /\ ~ game[c].hasRedirected
             /\ game[c].starts = 0
             /\ game'[c].timeout = sessions[game[c].sessionId]
             /\ game'[c].session = game'[c].timeout
        /\ AutoStarts(c) =>
             /\ game[c].mounted
             /\ game[c].starts = 0
             /\ game[c].timeout.exists
             /\ game[c].timeout.status = "locked"
             /\ "finalConfig" \in DOMAIN game[c].timeout
             /\ game'[c].config = game[c].timeout.finalConfig
             /\ game[c].timeout.hostId # (IF DeviceOf[c] = "d1" THEN "host_d1" ELSE "host_d2")
        /\ (~ Subscribed(c) /\ ~ (\E sid \in SessionIds : mountLobby(c, sid))) =>
             game'[c] = game[c] ]_vars

\* C37 witness: a client that is not the host was redirected once with the
\* config of the locked snapshot it received; the session has since been
\* locked again with another config, the client has received that snapshot
\* too, still subscribed, and no second redirect is scheduled.
C37_Witness ==
  \E c \in LobbyClients :
    /\ Subscribed(c)
    /\ game[c].started
    /\ game[c].starts = 1
    /\ game[c].timeout = Undefined
    /\ game[c].session = sessions[game[c].sessionId]
    /\ game[c].session.status = "locked"
    /\ game[c].session.finalConfig # game[c].config

\* The session tab c's lobby shows is locked, and c is not its host.
LockedForNonHost(c) ==
  /\ Subscribed(c)
  /\ sessions[game[c].sessionId].exists
  /\ sessions[game[c].sessionId].status = "locked"
  /\ sessions[game[c].sessionId].hostId # getHostId(c)

\* Tab c has started the game with the finalConfig the store holds.
StartedWithStored(c) ==
  /\ game[c].started
  /\ sessions[game[c].sessionId].exists
  /\ sessions[game[c].sessionId].status = "locked"
  /\ game[c].config = sessions[game[c].sessionId].finalConfig

PassesStructure(config) ==
  /\ config.personnel_database > 0 \/ config.operational_logs > 0
  /\ \/ config.external_notifications > 0
     \/ config.environmental_monitoring > 0
     \/ config.resource_optimization > 0
     \/ config.workflow_automation > 0
     \/ config.integrated_control > 0

\* C39: every finalConfig locked through the lobby's lock button has at least
\* one knowledge boundary and at least one action boundary above 0, as the
\* config the host's client validated before it called lockSession had, also
\* when selections are submitted between the validation and the transaction.
C39_LockedConfigPassesStructure ==
  \A sid \in SessionIds :
    (sessions[sid].exists /\ sessions[sid].status = "locked")
      => PassesStructure(sessions[sid].finalConfig)

=============================================================================
